---------------------------- MODULE Spec2Model ----------------------------
(***************************************************************************)
(* WordLadder: the path-finding and scoring engine of                      *)
(* src/word_ladder_game.py (class WordLadderGame).                         *)
(*                                                                         *)
(* A word is a sequence of character codes: 'a'..'z' are 1..26 and         *)
(* 'A'..'Z' are 27..52, so that str.lower() is a real conversion.  Python's *)
(* None is the empty sequence << >> wherever a path or a word is expected  *)
(* (the code only ever tests such results with `if not path`).  A method's *)
(* `self` is the record of the object's fields, so that a method can be    *)
(* evaluated on the fields as they are in the middle of a call.            *)
(***************************************************************************)
EXTENDS Integers, Sequences, FiniteSets, TLC

VARIABLES
    \* ---- fields of the WordLadderGame object (__init__, lines 57-73)
    word_set,          \* the corpus, never assigned after __init__
    banned_words,
    current_word,
    target_word,
    path_history,
    start_time,        \* FALSE: None, TRUE: a game was started
    elapsed,           \* time.time() - start_time, in seconds
    score,
    difficulty,
    hints_remaining,
    time_limit,
    hints_used,
    base_score,        \* the scoring factors setup_difficulty copies to the object;
    optimal_path_bonus,    \* all but base_score are unset (<< >>) until it is called
    time_factor,
    move_factor,
    hint_factor,
    graph,             \* the networkx graph: its nodes and its (undirected) edges
    \* ---- the last call on the object
    op,                \* its name
    ret,               \* how it returned: "True", "False", "None", "word", "int", "raise"
    hint,              \* the word get_hint returned, << >> otherwise
    calls,             \* the number of calls made on the object
    n_word,            \* the argument of the get_neighbors call made, << >> if none
    n_result,          \* the set it returned
    \* ---- one run of a search function, one loop iteration per step
    s_alg,             \* "idle", "a_star", "greedy", "uniform"
    s_start,
    s_target,
    frontier,          \* the heap, as the set of its entries
    visited,           \* the dict word -> cost of a_star_search and uniform_cost_search
    visited_set,       \* the set of words that greedy_best_first_search calls visited
    s_result           \* "running", "done"
    , s_path,          \* the value returned (<< >>: None) once s_result = "done"
    expanded,          \* the words popped and expanded so far in the run, in order
    \* ---- the same run, one pass of the body of its for loop per step
    heap,              \* the frontier, as the list of its entries in the order pushed
    cur,               \* the entry popped last
    pending,           \* the neighbours of cur.word the for loop has yet to reach
    \* ---- a second search call on the same object, running at the same time
    other,             \* its arguments and locals, one loop iteration per step
    \* ---- one call of suggest_word_pair, one attempt of its loop per step
    g_state,           \* "idle", "loop", "returned"
    g_difficulty,      \* the argument of the call
    g_word_length,     \* word_length, as random.randint gave it
    g_valid_words,     \* valid_words
    g_attempts,        \* the iterations of the loop of line 159 begun
    g_try,             \* start_word and target_word of the last iteration
    g_pair,            \* the pair returned once g_state = "returned"
    \* ---- the WordLadderGUI object that embeds the game (word_ladder_gui.py)
    gui,               \* its fields: current_screen, selected_difficulty, start_word,
                       \* target_word, input_text, is_loading
    worker,            \* where the thread of suggest_words_async stands
    main               \* where the event thread stands: "idle" between events

gameVars == <<banned_words, current_word, target_word, path_history, start_time,
              elapsed, score, difficulty, hints_remaining, time_limit, hints_used,
              base_score, optimal_path_bonus, time_factor, move_factor, hint_factor,
              graph, op, ret, hint, calls>>
neighborVars == <<n_word, n_result>>
searchVars == <<s_alg, s_start, s_target, frontier, visited, visited_set, s_result,
                s_path, expanded>>
suggestVars == <<g_state, g_difficulty, g_word_length, g_valid_words, g_attempts,
                 g_try, g_pair>>
loopVars == <<heap, cur, pending, other>>
guiVars == <<gui, worker, main>>
vars == <<word_set, gameVars, searchVars, loopVars, neighborVars, suggestVars, guiVars>>

-----------------------------------------------------------------------------
(* Characters and words *)

AsciiLowercase == 1..26

Lower(c) == IF c > 26 THEN c - 26 ELSE c

lower(w) == [i \in 1..Len(w) |-> Lower(w[i])]

None == << >>

Inf == 999999

(* ord(c): upper-case letters come before lower-case ones *)
ord(c) == IF c > 26 THEN c + 38 ELSE c + 96

(* Python's < on str and on list: lexicographic, a proper prefix is smaller. *)
RECURSIVE SeqLess(_, _, _)
SeqLess(x, y, i) ==
    IF i > Len(x) THEN i <= Len(y)
    ELSE IF i > Len(y) THEN FALSE
    ELSE IF x[i] = y[i] THEN SeqLess(x, y, i + 1)
    ELSE ord(x[i]) < ord(y[i])

StrLess(x, y) == SeqLess(x, y, 1)

RECURSIVE PathLess(_, _, _)
PathLess(p, q, i) ==
    IF i > Len(p) THEN i <= Len(q)
    ELSE IF i > Len(q) THEN FALSE
    ELSE IF p[i] = q[i] THEN PathLess(p, q, i + 1)
    ELSE StrLess(p[i], q[i])


-----------------------------------------------------------------------------
(* The corpus the game object is loaded with (lines 58-59: lower-case       *)
(* alphabetic words only).                                                  *)

Six(c) == <<19, 20, 1, 2, 12, c>>
Iso(c) == <<c, c, c, c, c, c>>

Corpus ==
    { <<3,1,20>>, <<3,15,20>>, <<3,15,7>>, <<4,15,7>>, <<4,15,20>>, <<3,1,7>>,
      \* cat, cot, cog, dog, dot, cag
      <<1,1,1>>, <<1,2,1>>, <<2,2,1>>, <<2,3,1>>, <<4,2,1>>, <<4,3,1>>, <<4,3,2>>,
      \* aaa, aba, bba, bca, dba, dca, dcb
      <<24,24,24>>, <<25,24,24>>, <<25,25,24>>, <<25,25,25>>,
      <<26,25,25>>, <<26,26,25>>, <<26,26,26>>, <<24,26,26>>,
      \* xxx, yxx, yyx, yyy, zyy, zzy, zzz, xzz
      <<5,13,21>>,            \* emu
      <<3,15,1,20>> }         \* coat
    \cup { Six(c) : c \in 1..3 }    \* stabla, stablb, stablc
    \cup { Iso(c) : c \in 4..12 }   \* dddddd .. llllll

-----------------------------------------------------------------------------
(* is_valid_word, lines 118-122 *)
is_valid_word(self, word) ==
    LET w == lower(word)
    IN  w \in self.word_set /\ w \notin self.banned_words

(* word[:i] + c + word[i+1:], line 129 *)
Substitute(word, i, c) == [word EXCEPT ![i] = c]

(* get_neighbors with the last letter of the alphabet never substituted *)
get_neighbors_short_alphabet(self, word) ==
    { new_word \in { Substitute(word, i, c) : i \in 1..Len(word), c \in 1..25 } :
        /\ new_word # word
        /\ is_valid_word(self, new_word)
        /\ new_word \notin self.banned_words }

(* get_neighbors with the last position of the word never substituted *)
get_neighbors_skip_last(self, word) ==
    { new_word \in { Substitute(word, i, c) : i \in 1..(Len(word) - 1), c \in AsciiLowercase } :
        /\ new_word # word
        /\ is_valid_word(self, new_word)
        /\ new_word \notin self.banned_words }

(* get_neighbors, lines 124-134 *)
get_neighbors(self, word) ==
    { new_word \in { Substitute(word, i, c) : i \in 1..Len(word), c \in AsciiLowercase } :
        /\ new_word # word
        /\ is_valid_word(self, new_word)
        /\ new_word \notin self.banned_words }

(* heuristic, lines 359-368 *)
RECURSIVE LetterSum(_, _)
LetterSum(w, i) == IF i > Len(w) THEN 0 ELSE Lower(w[i]) + LetterSum(w, i + 1)

heuristic(current, target) ==
    IF Len(current) # Len(target) THEN Inf ELSE LetterSum(current, 1)

(* float addition with float('inf') *)
Plus(x, y) == IF x = Inf \/ y = Inf THEN Inf ELSE x + y

-----------------------------------------------------------------------------
(* The heap.  heapq pops the least entry under Python's tuple order; the   *)
(* entries of one run are pairwise distinct, so the heap is the set of its *)
(* entries and heappop takes its minimum.  An entry is                     *)
(* (priority, cost, word, path); greedy's entries have no cost field (cost *)
(* 0 here) and uniform's priority is the cost.                              *)

Entry(pri, cost, word, path) == [pri |-> pri, cost |-> cost, word |-> word, path |-> path]

EntryLess(e, f) ==
    IF e.pri # f.pri THEN e.pri < f.pri
    ELSE IF e.cost # f.cost THEN e.cost < f.cost
    ELSE IF e.word # f.word THEN StrLess(e.word, f.word)
    ELSE PathLess(e.path, f.path, 1)

heappop(h) == CHOOSE e \in h : \A f \in h \ {e} : EntryLess(e, f)

-----------------------------------------------------------------------------
(* The three searches.  One iteration of each `while frontier:` loop is an *)
(* operator from (frontier, visited) to (frontier, visited); the loop      *)
(* iterates it.  get_neighbors returns a set whose iteration order is not  *)
(* fixed, but the neighbours of one word are distinct and the test on each *)
(* reads only its own entry of visited, so the body of the for loop        *)
(* commutes and the loop is the set comprehension below.                    *)

SetCost(vis, ws, c) == [w \in (DOMAIN vis) \cup ws |-> IF w \in ws THEN c ELSE vis[w]]

(* a_star_search, lines 395-400: the for loop over the neighbours of e.word *)
a_star_expand(self, e, fr, vis, target) ==
    LET new_cost == e.cost + 1
        pushed   == { n \in get_neighbors(self, e.word) :
                        n \notin DOMAIN vis \/ new_cost < vis[n] }
    IN  [frontier |-> fr \cup { Entry(Plus(new_cost, heuristic(n, target)), new_cost,
                                      n, Append(e.path, n)) : n \in pushed },
         visited  |-> SetCost(vis, pushed, new_cost)]

(* a_star_search, lines 389-401 *)
RECURSIVE a_star_loop(_, _, _, _)
a_star_loop(self, fr, vis, target) ==
    IF fr = {} THEN None
    ELSE LET e == heappop(fr)
         IN  IF e.word = target THEN e.path
             ELSE LET nxt == a_star_expand(self, e, fr \ {e}, vis, target)
                  IN  a_star_loop(self, nxt.frontier, nxt.visited, target)

(* a_star_search, lines 386-387 *)
a_star_init(start, target) ==
    [frontier |-> { Entry(heuristic(start, target), 0, start, <<start>>) },
     visited  |-> [w \in {start} |-> 0]]

(* a_star_search, lines 370-401 *)
a_star_search(self, start, target) ==
    IF ~(is_valid_word(self, start) /\ is_valid_word(self, target)) THEN None
    ELSE LET i == a_star_init(start, target)
         IN  a_star_loop(self, i.frontier, i.visited, target)

(* greedy_expand pushing the path of the popped entry, not extended *)
greedy_expand_stale_path(self, e, fr, vis, target) ==
    LET pushed == { n \in get_neighbors(self, e.word) : n \notin vis }
    IN  [frontier |-> fr \cup { Entry(heuristic(n, target), 0, n, e.path) : n \in pushed },
         visited  |-> vis \cup pushed]

(* greedy_expand marking a word visited when it is popped, not when pushed *)
greedy_expand_marks_on_pop(self, e, fr, vis, target) ==
    LET pushed == { n \in get_neighbors(self, e.word) : n \notin vis }
    IN  [frontier |-> fr \cup { Entry(heuristic(n, target), 0, n, Append(e.path, n))
                                 : n \in pushed },
         visited  |-> vis \cup {e.word}]

(* greedy_best_first_search, lines 429-433 *)
greedy_expand(self, e, fr, vis, target) ==
    LET pushed == { n \in get_neighbors(self, e.word) : n \notin vis }
    IN  [frontier |-> fr \cup { Entry(heuristic(n, target), 0, n, Append(e.path, n))
                                 : n \in pushed },
         visited  |-> vis \cup pushed]

(* greedy_best_first_search, lines 423-434 *)
RECURSIVE greedy_loop(_, _, _, _)
greedy_loop(self, fr, vis, target) ==
    IF fr = {} THEN None
    ELSE LET e == heappop(fr)
         IN  IF e.word = target THEN e.path
             ELSE LET nxt == greedy_expand(self, e, fr \ {e}, vis, target)
                  IN  greedy_loop(self, nxt.frontier, nxt.visited, target)

(* greedy_best_first_search, lines 420-421 *)
greedy_init(start, target) ==
    [frontier |-> { Entry(heuristic(start, target), 0, start, <<start>>) },
     visited  |-> {start}]

(* greedy_best_first_search, lines 403-434 *)
greedy_best_first_search(self, start, target) ==
    IF ~(is_valid_word(self, start) /\ is_valid_word(self, target)) THEN None
    ELSE LET i == greedy_init(start, target)
         IN  greedy_loop(self, i.frontier, i.visited, target)

(* uniform_expand with the priority of a_star_search *)
uniform_expand_with_heuristic(self, e, fr, vis, target) ==
    a_star_expand(self, e, fr, vis, target)

(* uniform_cost_search, lines 462-466 *)
uniform_expand(self, e, fr, vis, target) ==
    LET new_cost == e.cost + 1
        pushed   == { n \in get_neighbors(self, e.word) :
                        n \notin DOMAIN vis \/ new_cost < vis[n] }
    IN  [frontier |-> fr \cup { Entry(new_cost, new_cost, n, Append(e.path, n))
                                 : n \in pushed },
         visited  |-> SetCost(vis, pushed, new_cost)]

(* uniform_cost_search, lines 456-467 *)
RECURSIVE uniform_loop(_, _, _, _)
uniform_loop(self, fr, vis, target) ==
    IF fr = {} THEN None
    ELSE LET e == heappop(fr)
         IN  IF e.word = target THEN e.path
             ELSE LET nxt == uniform_expand(self, e, fr \ {e}, vis, target)
                  IN  uniform_loop(self, nxt.frontier, nxt.visited, target)

(* uniform_cost_search, lines 453-454 *)
uniform_init(start, target) ==
    [frontier |-> { Entry(0, 0, start, <<start>>) },
     visited  |-> [w \in {start} |-> 0]]

(* uniform_cost_search, lines 436-467 *)
uniform_cost_search(self, start, target) ==
    IF ~(is_valid_word(self, start) /\ is_valid_word(self, target)) THEN None
    ELSE LET i == uniform_init(start, target)
         IN  uniform_loop(self, i.frontier, i.visited, target)

Algorithms == {"a_star", "greedy", "uniform"}

search_init(alg, start, target) ==
    CASE alg = "a_star"  -> a_star_init(start, target)
      [] alg = "greedy"  -> greedy_init(start, target)
      [] alg = "uniform" -> uniform_init(start, target)

search_expand(alg, self, e, fr, vis, target) ==
    CASE alg = "a_star"  -> a_star_expand(self, e, fr, vis, target)
      [] alg = "greedy"  -> greedy_expand(self, e, fr, vis, target)
      [] alg = "uniform" -> uniform_expand(self, e, fr, vis, target)

search(alg, self, start, target) ==
    CASE alg = "a_star"  -> a_star_search(self, start, target)
      [] alg = "greedy"  -> greedy_best_first_search(self, start, target)
      [] alg = "uniform" -> uniform_cost_search(self, start, target)

-----------------------------------------------------------------------------
(* DIFFICULTY_SETTINGS, lines 14-48 *)
DIFFICULTY_SETTINGS ==
    [beginner  |-> [word_length_range |-> <<3, 4>>, banned_words |-> {},
                    time_limit |-> Inf, hint_limit |-> 5, base_score |-> 1000,
                    optimal_path_bonus |-> 300, time_factor |-> 2,
                    move_factor |-> 25, hint_factor |-> 50],
     advanced  |-> [word_length_range |-> <<5, 6>>, banned_words |-> {},
                    time_limit |-> 300, hint_limit |-> 3, base_score |-> 2000,
                    optimal_path_bonus |-> 500, time_factor |-> 5,
                    move_factor |-> 50, hint_factor |-> 150],
     challenge |-> [word_length_range |-> <<6, 8>>, banned_words |-> {},
                    time_limit |-> 180, hint_limit |-> 1, base_score |-> 3000,
                    optimal_path_bonus |-> 1000, time_factor |-> 10,
                    move_factor |-> 100, hint_factor |-> 300]]

Difficulties == {"beginner", "advanced", "challenge"}

Min(x, y) == IF x <= y THEN x ELSE y
Max(x, y) == IF x >= y THEN x ELSE y

(* random.sample(population, k): the sets of k distinct elements *)
RECURSIVE Samples(_, _)
Samples(population, k) ==
    IF k = 0 THEN { {} }
    ELSE UNION { { T \cup {x} : T \in Samples(population \ {x}, k - 1) } : x \in population }

(* BannedSamples drawing min(11, n) words *)
BannedSamples_eleven(self, d) ==
    IF d = "challenge"
    THEN LET range == DIFFICULTY_SETTINGS[d].word_length_range
         IN  UNION { LET potential_words == { w \in self.word_set : Len(w) = word_length }
                         n == Cardinality(potential_words)
                         k == Min(11, n)
                     IN  { potential_words \ T : T \in Samples(potential_words, n - k) }
                     : word_length \in range[1]..range[2] }
    ELSE { DIFFICULTY_SETTINGS[d].banned_words }

(* setup_difficulty, lines 109-116: the banned sets the call may install.  *)
(* A sample of more than half of the words is drawn as the complement of   *)
(* a sample of the others.                                                  *)
BannedSamples(self, d) ==
    IF d = "challenge"
    THEN LET range == DIFFICULTY_SETTINGS[d].word_length_range
         IN  UNION { LET potential_words == { w \in self.word_set : Len(w) = word_length }
                         n == Cardinality(potential_words)
                         k == Min(10, n)
                     IN  IF 2 * k > n
                         THEN { potential_words \ T : T \in Samples(potential_words, n - k) }
                         ELSE Samples(potential_words, k)
                     : word_length \in range[1]..range[2] }
    ELSE { DIFFICULTY_SETTINGS[d].banned_words }

(* setup_difficulty, lines 94-116, with the sample B that line 113 draws *)
setup_difficulty(self, d, B) ==
    [self EXCEPT !.difficulty = d,
                 !.hints_remaining = DIFFICULTY_SETTINGS[d].hint_limit,
                 !.time_limit = DIFFICULTY_SETTINGS[d].time_limit,
                 !.base_score = DIFFICULTY_SETTINGS[d].base_score,
                 !.optimal_path_bonus = DIFFICULTY_SETTINGS[d].optimal_path_bonus,
                 !.time_factor = DIFFICULTY_SETTINGS[d].time_factor,
                 !.move_factor = DIFFICULTY_SETTINGS[d].move_factor,
                 !.hint_factor = DIFFICULTY_SETTINGS[d].hint_factor,
                 !.banned_words = B]

(* get_time_remaining, lines 335-340 *)
get_time_remaining(self) ==
    IF self.start_time = FALSE THEN self.time_limit
    ELSE IF self.time_limit = Inf THEN Inf
    ELSE Max(0, self.time_limit - self.elapsed)

(* is_game_over, lines 342-345 *)
is_game_over(self) ==
    self.current_word = self.target_word \/ get_time_remaining(self) <= 0

(* build_graph, lines 347-357; an edge is the set of its two ends *)
build_graph(self, word_length) ==
    LET words_of_length == { word \in self.word_set : Len(word) = word_length }
    IN  [nodes |-> words_of_length,
         edges |-> UNION { { {word, neighbor} :
                                neighbor \in get_neighbors(self, word) \cap words_of_length }
                           : word \in words_of_length }]

-----------------------------------------------------------------------------
(* Bounds and inputs of the model *)

MaxCalls == 4         \* the calls one game object receives

TimePoints == {0, 80, 180, 310}           \* the elapsed times observed

(* the outcomes of random.sample observed: the samples that leave out      *)
(* stablb and one of stabla and stablc, and the empty sample                *)
observed_samples(self, d) ==
    { B \in BannedSamples(self, d) :
        Six(2) \notin B /\ \E c \in {1, 3} : Six(c) \notin B }

(* the same, tabulated for the objects loaded with Corpus *)
SampleTable ==
    [d \in {"beginner", "advanced", "challenge"} |->
        observed_samples([word_set |-> Corpus], d)]
    @@ << >>

ObservedSamples(self, d) ==
    IF self.word_set = Corpus THEN SampleTable[d] ELSE observed_samples(self, d)

(* the arguments of the start_game calls *)
StartInputs ==
    { << <<29,1,20>>,   <<4,15,33>>,    "beginner" >>,    \* Cat, doG
      << <<3,1,20>>,    <<4,15,7>>,     "advanced" >>,    \* cat, dog
      << <<3,1,20>>,    <<3,1,20>>,     "beginner" >>,    \* cat, cat
      << <<3,1,20>>,    <<3,15,1,20>>,  "beginner" >>,    \* cat, coat
      << <<3,1,20>>,    <<5,13,21>>,    "beginner" >>,    \* cat, emu
      << <<3,1,20>>,    <<3,1,2>>,      "beginner" >>,    \* cat, cab (not a word)
      << <<4,3,2>>,     <<1,1,1>>,      "beginner" >>,    \* dcb, aaa
      << <<4,3,1>>,     <<1,1,1>>,      "beginner" >>,    \* dca, aaa
      << <<4,3,1>>,     <<1,1,1>>,      "advanced" >>,
      << <<24,24,24>>,  <<24,26,26>>,   "beginner" >>,    \* xxx, xzz
      << <<24,24,24>>,  <<24,26,26>>,   "advanced" >>,
      << <<24,24,24>>,  <<24,26,26>>,   "challenge" >>,
      << Six(1),        Six(2),         "beginner" >>,    \* stabla, stablb
      << Six(1),        Six(3),         "beginner" >>,    \* stabla, stablc
      << Six(1),        Six(2),         "challenge" >> }

(* the arguments of the make_move calls *)
MoveInputs ==
    { <<3,15,20>>, <<3,15,46>>, <<3,15,7>>, <<4,15,7>>, <<4,15,20>>, <<3,1,20>>,
      \* cot, coT, cog, dog, dot, cat
      <<3,1,2>>, <<3,1>>, <<3,15,1,20>>,          \* cab, ca, coat
      <<4,2,1>>, <<2,3,1>>, <<1,2,1>>, <<2,2,1>>, <<1,1,1>>,   \* dba, bca, aba, bba, aaa
      Six(2), Six(3) }                             \* stablb, stablc

-----------------------------------------------------------------------------
(* Evaluation of the searches.  The result of a search is a function of    *)
(* the corpus, the banned set, start and target; SearchTable holds it for  *)
(* the banned sets setup_difficulty can install on Corpus and the targets  *)
(* of StartInputs, and call reads it there and runs the search elsewhere.  *)
(* (@@ << >> makes the table a tabulated function, evaluated once.)         *)

TableBanned ==
    UNION { ObservedSamples([word_set |-> Corpus], d) : d \in Difficulties }

TableTargets == { lower(q[2]) : q \in StartInputs } \cap Corpus

SearchTable ==
    [B \in TableBanned |->
        [alg \in Algorithms |->
            [target \in TableTargets |->
                [start \in { w \in Corpus : Len(w) = Len(target) } |->
                    search(alg, [word_set |-> Corpus, banned_words |-> B], start, target)]
                @@ << >>]
            @@ << >>]
        @@ << >>]
    @@ << >>

(* the corpus of the suggestions and of the GUI, its banned sets and the    *)
(* words the GUI starts a game with, tabulated likewise                     *)

(* six-letter words in a row, each one letter from the next:               *)
(* aaaaaa, baaaaa, bbaaaa, .., bbbbbb, cbbbbb, ccbbbb, .., cccccb           *)
Chain(i) ==
    [k \in 1..6 |-> IF i <= 6 THEN (IF k <= i THEN 2 ELSE 1)
                    ELSE (IF k <= i - 6 THEN 3 ELSE 2)]

SuggestCorpus == { w \in Corpus : Len(w) <= 4 } \cup { Chain(i) : i \in 0..11 }

SuggestBanned == { {}, { <<25,25,25>>, Chain(3) } }          \* yyy, bbbaaa

(* the samples of line 113 observed in the GUI: the empty one and the one   *)
(* that leaves aaaaaa and baaaaa                                            *)
gui_samples(self, d) ==
    { B \in BannedSamples(self, d) : B = {} \/ (Chain(0) \notin B /\ Chain(1) \notin B) }

(* the banned sets the tables of this corpus are computed for *)
TabulatedBanned ==
    SuggestBanned \cup gui_samples([word_set |-> SuggestCorpus], "challenge")

(* the words typed into the input box *)
GuiTyped == { <<3,1,20>>, <<4,15,7>>, Chain(0), Chain(8) }
            \* cat, dog, aaaaaa, ccbbbb

(* the pairs of random.choice of game lines 160 and 188 observed: cat and   *)
(* dog, aaaaaa and bbbbba or ccbbbb when the attempt can return them, and   *)
(* their start words when it can return none of them                        *)
GuiPairs == { << <<3,1,20>>, <<4,15,7>> >>, <<Chain(0), Chain(5)>>, <<Chain(0), Chain(8)>> }

GuiWords == GuiTyped \cup { p[2] : p \in GuiPairs }

PlayTable ==
    [B \in TabulatedBanned |->
        [target \in GuiWords |->
            [start \in { w \in SuggestCorpus : Len(w) = Len(target) } |->
                a_star_search([word_set |-> SuggestCorpus, banned_words |-> B],
                              start, target)]
            @@ << >>]
        @@ << >>]
    @@ << >>

call(alg, self, start, target) ==
    IF /\ self.word_set = Corpus
       /\ self.banned_words \in TableBanned
       /\ alg \in Algorithms
       /\ target \in TableTargets
       /\ start \in Corpus /\ Len(start) = Len(target)
    THEN SearchTable[self.banned_words][alg][target][start]
    ELSE IF /\ self.word_set = SuggestCorpus
            /\ self.banned_words \in TabulatedBanned
            /\ alg = "a_star"
            /\ target \in GuiWords
            /\ start \in SuggestCorpus /\ Len(start) = Len(target)
    THEN PlayTable[self.banned_words][target][start]
    ELSE search(alg, self, start, target)

(* the same for build_graph *)
GraphTable ==
    [B \in TableBanned |->
        [word_length \in { Len(w) : w \in Corpus } |->
            build_graph([word_set |-> Corpus, banned_words |-> B], word_length)]
        @@ << >>]
    @@ << >>

PlayGraphTable ==
    [B \in TabulatedBanned |->
        [word_length \in { Len(w) : w \in GuiWords } |->
            build_graph([word_set |-> SuggestCorpus, banned_words |-> B], word_length)]
        @@ << >>]
    @@ << >>

built(self, word_length) ==
    IF /\ self.word_set = Corpus
       /\ self.banned_words \in TableBanned
       /\ word_length \in { Len(w) : w \in Corpus }
    THEN GraphTable[self.banned_words][word_length]
    ELSE IF /\ self.word_set = SuggestCorpus
            /\ self.banned_words \in TabulatedBanned
            /\ word_length \in { Len(w) : w \in GuiWords }
    THEN PlayGraphTable[self.banned_words][word_length]
    ELSE build_graph(self, word_length)

-----------------------------------------------------------------------------
(* calculate_score, lines 265-333.  The arithmetic is Python's float        *)
(* arithmetic followed by int(); for the elapsed times of TimePoints it     *)
(* equals the exact quotient truncated, except that 1.0 - 0.8 is the double *)
(* 0.19999999999999996, which makes int() one less when elapsed equals the  *)
(* time limit.                                                              *)

(* PartialBonus decaying by tenths: int(optimal_path_bonus * (1 - extra_moves / 10)) *)
PartialBonus_tenths(optimal_path_bonus_, extra_moves) ==
    (optimal_path_bonus_ * (10 - extra_moves)) \div 10

(* int(optimal_path_bonus * (1 - extra_moves / 5)), line 297 *)
PartialBonus(optimal_path_bonus_, extra_moves) ==
    (optimal_path_bonus_ * (5 - extra_moves)) \div 5

(* lines 300-315, the amount added to the score *)
TimeComponent(self, base_score_, time_factor_, time_taken) ==
    IF self.time_limit # Inf
    THEN IF 2 * time_taken < self.time_limit
         THEN (base_score_ * (self.time_limit - 2 * time_taken)) \div (4 * self.time_limit)
         ELSE IF 5 * time_taken > 4 * self.time_limit
         THEN 0 - ( (base_score_ * (5 * time_taken - 4 * self.time_limit))
                       \div (10 * self.time_limit)
                    - (IF time_taken = self.time_limit THEN 1 ELSE 0) )
         ELSE 0
    ELSE 0 - Min(time_taken * time_factor_, (base_score_ * 3) \div 10)

(* HintPenalty with every hint at the price of the first *)
HintPenalty_flat(hint_factor_, n) == hint_factor_ * n

(* lines 326-328 *)
RECURSIVE HintPenalty(_, _)
HintPenalty(hint_factor_, n) ==
    IF n = 0 THEN 0 ELSE HintPenalty(hint_factor_, n - 1) + hint_factor_ * n

(* line 275 raises TypeError when no game was ever started (start_time is  *)
(* None) and line 276 when a_star_search returns None                       *)
calculate_score_raises(self) ==
    \/ self.start_time = FALSE
    \/ call("a_star", self, self.path_history[1], self.target_word) = None

(* score_value with the hint penalty added instead of subtracted (line 329) *)
score_value_hint_bonus(self) ==
    LET time_taken == self.elapsed
        optimal_path_length ==
            Len(call("a_star", self, self.path_history[1], self.target_word)) - 1
        user_path_length == Len(self.path_history) - 1
        settings == DIFFICULTY_SETTINGS[self.difficulty]
        base_score_ == settings.base_score
        extra_moves == Max(0, user_path_length - optimal_path_length)
        path_bonus == IF extra_moves = 0 THEN settings.optimal_path_bonus
                      ELSE IF extra_moves <= 2
                      THEN PartialBonus(settings.optimal_path_bonus, extra_moves)
                      ELSE 0
        move_penalty == IF extra_moves > 0 THEN extra_moves * settings.move_factor ELSE 0
        hint_penalty == IF self.hints_used > 0
                        THEN HintPenalty(settings.hint_factor, self.hints_used) ELSE 0
    IN  Max(0, base_score_ + path_bonus
               + TimeComponent(self, base_score_, settings.time_factor, time_taken)
               - move_penalty + hint_penalty)

(* score_value with the words of the path history counted as the moves     *)
(* (line 277 without its - 1)                                               *)
score_value_counts_words(self) ==
    LET time_taken == self.elapsed
        optimal_path_length ==
            Len(call("a_star", self, self.path_history[1], self.target_word)) - 1
        user_path_length == Len(self.path_history)
        settings == DIFFICULTY_SETTINGS[self.difficulty]
        base_score_ == settings.base_score
        extra_moves == Max(0, user_path_length - optimal_path_length)
        path_bonus == IF extra_moves = 0 THEN settings.optimal_path_bonus
                      ELSE IF extra_moves <= 2
                      THEN PartialBonus(settings.optimal_path_bonus, extra_moves)
                      ELSE 0
        move_penalty == IF extra_moves > 0 THEN extra_moves * settings.move_factor ELSE 0
        hint_penalty == IF self.hints_used > 0
                        THEN HintPenalty(settings.hint_factor, self.hints_used) ELSE 0
    IN  Max(0, base_score_ + path_bonus
               + TimeComponent(self, base_score_, settings.time_factor, time_taken)
               - move_penalty - hint_penalty)

(* lines 275-332: the value assigned to self.score *)
score_value(self) ==
    LET time_taken == self.elapsed
        optimal_path_length ==
            Len(call("a_star", self, self.path_history[1], self.target_word)) - 1
        user_path_length == Len(self.path_history) - 1
        settings == DIFFICULTY_SETTINGS[self.difficulty]
        base_score_ == settings.base_score
        extra_moves == Max(0, user_path_length - optimal_path_length)
        path_bonus == IF extra_moves = 0 THEN settings.optimal_path_bonus
                      ELSE IF extra_moves <= 2
                      THEN PartialBonus(settings.optimal_path_bonus, extra_moves)
                      ELSE 0
        move_penalty == IF extra_moves > 0 THEN extra_moves * settings.move_factor ELSE 0
        hint_penalty == IF self.hints_used > 0
                        THEN HintPenalty(settings.hint_factor, self.hints_used) ELSE 0
    IN  Max(0, base_score_ + path_bonus
               + TimeComponent(self, base_score_, settings.time_factor, time_taken)
               - move_penalty - hint_penalty)

(* calculate_score, lines 265-333: the object after the call and how the   *)
(* call returned                                                            *)
calculate_score(self) ==
    IF calculate_score_raises(self)
    THEN [self |-> self, ret |-> "raise", value |-> None]
    ELSE [self |-> [self EXCEPT !.score = score_value(self)], ret |-> "int", value |-> None]

-----------------------------------------------------------------------------
(* start_game, lines 219-221 *)
OutOfRange(d, path_length) ==
    \/ d = "beginner" /\ path_length > 4
    \/ d = "advanced" /\ (path_length < 4 \/ path_length > 7)
    \/ d = "challenge" /\ path_length < 7

(* start_game_rejects without the test of line 215 (`if not path`) *)
start_game_rejects_without_path_test(self, start_word, target_word_, d) ==
    \/ Len(start_word) # Len(target_word_)
    \/ ~(is_valid_word(self, start_word) /\ is_valid_word(self, target_word_))
    \/ OutOfRange(d, Len(call("a_star", self, start_word, target_word_)) - 1)

(* start_game, lines 208-222, on the object as setup_difficulty left it *)
start_game_rejects(self, start_word, target_word_, d) ==
    \/ Len(start_word) # Len(target_word_)
    \/ ~(is_valid_word(self, start_word) /\ is_valid_word(self, target_word_))
    \/ call("a_star", self, start_word, target_word_) = None
    \/ OutOfRange(d, Len(call("a_star", self, start_word, target_word_)) - 1)

(* start_game without the reset of line 229 (hints_used) *)
start_game_keeps_hints_used(self0, start, target, d, B) ==
    LET start_word == lower(start)
        target_word_ == lower(target)
        self == setup_difficulty(self0, d, B)
    IN  IF start_game_rejects(self, start_word, target_word_, d)
        THEN [self |-> self, ret |-> "False", value |-> None]
        ELSE [self |-> [self EXCEPT !.current_word = start_word,
                                    !.target_word = target_word_,
                                    !.path_history = <<start_word>>,
                                    !.start_time = TRUE,
                                    !.elapsed = 0,
                                    !.score = 0,
                                    !.graph = built(self, Len(start_word))],
              ret |-> "True", value |-> None]

(* start_game, lines 200-234, with the sample B that setup_difficulty draws *)
start_game(self0, start, target, d, B) ==
    LET start_word == lower(start)
        target_word_ == lower(target)
        self == setup_difficulty(self0, d, B)
    IN  IF start_game_rejects(self, start_word, target_word_, d)
        THEN [self |-> self, ret |-> "False", value |-> None]
        ELSE [self |-> [self EXCEPT !.current_word = start_word,
                                    !.target_word = target_word_,
                                    !.path_history = <<start_word>>,
                                    !.start_time = TRUE,
                                    !.elapsed = 0,
                                    !.score = 0,
                                    !.hints_used = 0,
                                    !.graph = built(self, Len(start_word))],
              ret |-> "True", value |-> None]

(* zip(new_word, self.current_word), line 477 *)
Differences(x, y) == Cardinality({ i \in 1..Min(Len(x), Len(y)) : x[i] # y[i] })

(* make_move_rejects without the test of line 477 *)
make_move_rejects_without_adjacency(self, new_word) ==
    \/ ~is_valid_word(self, new_word)
    \/ Len(new_word) # Len(self.current_word)

(* make_move, lines 473-478 *)
make_move_rejects(self, new_word) ==
    \/ ~is_valid_word(self, new_word)
    \/ Len(new_word) # Len(self.current_word)
    \/ Differences(new_word, self.current_word) # 1

(* make_move without the call of calculate_score of lines 484-485 *)
make_move_without_score(self, word) ==
    LET new_word == lower(word)
    IN  IF make_move_rejects(self, new_word)
        THEN [self |-> self, ret |-> "False", value |-> None]
        ELSE [self |-> [self EXCEPT !.current_word = new_word,
                                    !.path_history = Append(self.path_history, new_word)],
              ret |-> "True", value |-> None]

(* make_move with the assignment of line 480 moved above the tests *)
make_move_assigns_before_tests(self, word) ==
    LET new_word == lower(word)
        moved_to == [self EXCEPT !.current_word = new_word]
    IN  IF make_move_rejects(self, new_word)
        THEN [self |-> moved_to, ret |-> "False", value |-> None]
        ELSE LET moved == [moved_to EXCEPT
                             !.path_history = Append(self.path_history, new_word)]
             IN  IF new_word = self.target_word
                 THEN LET scored == calculate_score(moved)
                      IN  [self |-> scored.self,
                           ret |-> IF scored.ret = "raise" THEN "raise" ELSE "True",
                           value |-> None]
                 ELSE [self |-> moved, ret |-> "True", value |-> None]

(* make_move, lines 469-486 *)
make_move(self, word) ==
    LET new_word == lower(word)
    IN  IF make_move_rejects(self, new_word)
        THEN [self |-> self, ret |-> "False", value |-> None]
        ELSE LET moved == [self EXCEPT !.current_word = new_word,
                                       !.path_history = Append(self.path_history, new_word)]
             IN  IF new_word = self.target_word
                 THEN LET scored == calculate_score(moved)
                      IN  [self |-> scored.self,
                           ret |-> IF scored.ret = "raise" THEN "raise" ELSE "True",
                           value |-> None]
                 ELSE [self |-> moved, ret |-> "True", value |-> None]

(* get_hint without the branch of lines 258-259: 'uniform' runs A* *)
get_hint_uniform_as_a_star(self, algorithm) ==
    IF self.current_word = self.target_word \/ self.hints_remaining <= 0
    THEN [self |-> self, ret |-> "None", value |-> None]
    ELSE LET used == [self EXCEPT
                        !.hints_remaining = IF @ = Inf THEN Inf ELSE @ - 1,
                        !.hints_used = @ + 1]
             path == IF algorithm = "greedy"
                     THEN call("greedy", used, self.current_word, self.target_word)
                     ELSE call("a_star", used, self.current_word, self.target_word)
         IN  IF path # None /\ Len(path) > 1
             THEN [self |-> used, ret |-> "word", value |-> path[2]]
             ELSE [self |-> used, ret |-> "None", value |-> None]

(* get_hint that counts a hint only when the search found one *)
get_hint_counts_found_only(self, algorithm) ==
    IF self.current_word = self.target_word \/ self.hints_remaining <= 0
    THEN [self |-> self, ret |-> "None", value |-> None]
    ELSE LET used == [self EXCEPT
                        !.hints_remaining = IF @ = Inf THEN Inf ELSE @ - 1,
                        !.hints_used = @ + 1]
             path == IF algorithm = "greedy"
                     THEN call("greedy", self, self.current_word, self.target_word)
                     ELSE IF algorithm = "uniform"
                     THEN call("uniform", self, self.current_word, self.target_word)
                     ELSE call("a_star", self, self.current_word, self.target_word)
         IN  IF path # None /\ Len(path) > 1
             THEN [self |-> used, ret |-> "word", value |-> path[2]]
             ELSE [self |-> self, ret |-> "None", value |-> None]

(* get_hint, lines 236-263 *)
get_hint(self, algorithm) ==
    IF self.current_word = self.target_word \/ self.hints_remaining <= 0
    THEN [self |-> self, ret |-> "None", value |-> None]
    ELSE LET used == [self EXCEPT
                        !.hints_remaining = IF @ = Inf THEN Inf ELSE @ - 1,
                        !.hints_used = @ + 1]
             path == IF algorithm = "greedy"
                     THEN call("greedy", used, self.current_word, self.target_word)
                     ELSE IF algorithm = "uniform"
                     THEN call("uniform", used, self.current_word, self.target_word)
                     ELSE call("a_star", used, self.current_word, self.target_word)
         IN  IF path # None /\ Len(path) > 1
             THEN [self |-> used, ret |-> "word", value |-> path[2]]
             ELSE [self |-> used, ret |-> "None", value |-> None]

-----------------------------------------------------------------------------
(* The game object and the calls on it *)

Self ==
    [word_set |-> word_set, banned_words |-> banned_words,
     current_word |-> current_word, target_word |-> target_word,
     path_history |-> path_history, start_time |-> start_time, elapsed |-> elapsed,
     score |-> score, difficulty |-> difficulty, hints_remaining |-> hints_remaining,
     time_limit |-> time_limit, hints_used |-> hints_used,
     base_score |-> base_score, optimal_path_bonus |-> optimal_path_bonus,
     time_factor |-> time_factor, move_factor |-> move_factor,
     hint_factor |-> hint_factor, graph |-> graph]

(* no entry: the value of cur before the first pop *)
NoEntry == Entry(0, 0, << >>, << >>)

(* no second call was made *)
no_other ==
    [alg |-> "idle", start |-> << >>, target |-> << >>, frontier |-> {},
     visited |-> << >>, result |-> "done", path |-> None, seen |-> 0, mixed |-> FALSE]

(* no search is in its for loop *)
no_loop ==
    /\ heap = << >>
    /\ cur = NoEntry
    /\ pending = {}
    /\ other = no_other

(* no call of suggest_word_pair was made *)
no_suggestion ==
    /\ g_state = "idle"
    /\ g_difficulty = "beginner"
    /\ g_word_length = 0
    /\ g_valid_words = {}
    /\ g_attempts = 0
    /\ g_try = <<None, None>>
    /\ g_pair = <<None, None>>

(* WordLadderGUI.__init__ (word_ladder_gui.py, lines 65-99): the difficulty  *)
(* screen is shown, nothing was typed and no worker thread was started      *)
no_gui ==
    /\ gui = [current_screen |-> "difficulty_select", selected_difficulty |-> "beginner",
              start_word |-> None, target_word |-> None, input_text |-> None,
              is_loading |-> FALSE]
    /\ worker = "none"
    /\ main = "idle"

(* the object after a call, and what the call returned *)
Returns(name, r) ==
    /\ word_set' = r.self.word_set
    /\ banned_words' = r.self.banned_words
    /\ current_word' = r.self.current_word
    /\ target_word' = r.self.target_word
    /\ path_history' = r.self.path_history
    /\ start_time' = r.self.start_time
    /\ elapsed' = r.self.elapsed
    /\ score' = r.self.score
    /\ difficulty' = r.self.difficulty
    /\ hints_remaining' = r.self.hints_remaining
    /\ time_limit' = r.self.time_limit
    /\ hints_used' = r.self.hints_used
    /\ base_score' = r.self.base_score
    /\ optimal_path_bonus' = r.self.optimal_path_bonus
    /\ time_factor' = r.self.time_factor
    /\ move_factor' = r.self.move_factor
    /\ hint_factor' = r.self.hint_factor
    /\ graph' = r.self.graph
    /\ op' = name
    /\ ret' = r.ret
    /\ hint' = r.value
    /\ calls' = calls + 1

(* __init__, lines 57-73 *)
Init ==
    /\ word_set = Corpus
    /\ banned_words = {}
    /\ current_word = << >>
    /\ target_word = << >>
    /\ path_history = << >>
    /\ start_time = FALSE
    /\ elapsed = 0
    /\ score = 0
    /\ difficulty = "beginner"
    /\ hints_remaining = Inf
    /\ time_limit = Inf
    /\ hints_used = 0
    /\ base_score = 1000
    /\ optimal_path_bonus = None
    /\ time_factor = None
    /\ move_factor = None
    /\ hint_factor = None
    /\ graph = [nodes |-> {}, edges |-> {}]
    /\ op = "__init__"
    /\ ret = "None"
    /\ hint = None
    /\ calls = 0
    /\ s_alg = "idle"
    /\ s_start = << >>
    /\ s_target = << >>
    /\ frontier = {}
    /\ visited = << >>
    /\ visited_set = {}
    /\ s_result = "done"
    /\ s_path = None
    /\ expanded = << >>
    /\ no_loop
    /\ n_word = None
    /\ n_result = {}
    /\ no_suggestion
    /\ no_gui

StartGame ==
    /\ calls < MaxCalls
    /\ \E p \in StartInputs : \E B \in ObservedSamples(Self, p[3]) :
          \E r \in { start_game(Self, p[1], p[2], p[3], B) } : Returns("start_game", r)
    /\ UNCHANGED <<searchVars, loopVars, neighborVars, suggestVars, guiVars>>

MakeMove ==
    /\ calls < MaxCalls
    /\ \E w \in MoveInputs : \E r \in { make_move(Self, w) } : Returns("make_move", r)
    /\ UNCHANGED <<searchVars, loopVars, neighborVars, suggestVars, guiVars>>

GetHint ==
    /\ calls < MaxCalls
    /\ \E a \in Algorithms : \E r \in { get_hint(Self, a) } : Returns("get_hint", r)
    /\ UNCHANGED <<searchVars, loopVars, neighborVars, suggestVars, guiVars>>

CalculateScore ==
    /\ calls < MaxCalls
    /\ \E r \in { calculate_score(Self) } : Returns("calculate_score", r)
    /\ UNCHANGED <<searchVars, loopVars, neighborVars, suggestVars, guiVars>>

(* time.time() advances *)
Tick ==
    /\ start_time = TRUE
    /\ \E t \in TimePoints : t > elapsed /\ elapsed' = t
    /\ UNCHANGED <<word_set, searchVars, banned_words, current_word, target_word,
                   path_history, start_time, score, difficulty, hints_remaining,
                   time_limit, hints_used, base_score, optimal_path_bonus, time_factor,
                   move_factor, hint_factor, graph, op, ret, hint, calls, loopVars,
                   neighborVars, suggestVars, guiVars>>

Next == StartGame \/ MakeMove \/ GetHint \/ CalculateScore \/ Tick

Spec == Init /\ [][Next]_vars

-----------------------------------------------------------------------------
(* One call of a read-only operation on a game object that no game was     *)
(* started on: a run of a search function, one iteration of its `while     *)
(* frontier:` loop per step, or a call of get_neighbors.  The corpus the   *)
(* object was loaded with and its banned set are inputs of the call.        *)

TwoLetter == { <<3,4>>, <<2,4>>, <<1,4>>, <<1,1>>, <<2,1>> }    \* cd, bd, ad, aa, ba

SearchCorpora == { Corpus, TwoLetter }

SearchBanned ==
    { {}, { <<3,15,20>> }, { <<3,1,7>>, <<4,2,1>> }, { <<2,4>> },      \* cot; cag, dba; bd
      { Six(1), Six(3) } \cup { Iso(c) : c \in 4..11 } }

SearchStarts == Corpus \cup TwoLetter \cup { <<29,1,20>>, <<3,1,2>> }      \* Cat, cab

SearchTargets ==
    { <<4,15,7>>, <<1,1,1>>, <<24,26,26>>, <<3,1,20>>, <<5,13,21>>, <<3,15,1,20>>,
      Six(2), <<1,1>> }                   \* dog, aaa, xzz, cat, emu, coat, stablb, aa

SearchInit ==
    /\ word_set \in SearchCorpora
    /\ banned_words \in { B \in SearchBanned : B \subseteq word_set }
    /\ current_word = << >>
    /\ target_word = << >>
    /\ path_history = << >>
    /\ start_time = FALSE
    /\ elapsed = 0
    /\ score = 0
    /\ difficulty = "beginner"
    /\ hints_remaining = Inf
    /\ time_limit = Inf
    /\ hints_used = 0
    /\ base_score = 1000
    /\ optimal_path_bonus = None
    /\ time_factor = None
    /\ move_factor = None
    /\ hint_factor = None
    /\ graph = [nodes |-> {}, edges |-> {}]
    /\ op = "__init__"
    /\ ret = "None"
    /\ hint = None
    /\ calls = 0
    /\ s_alg = "idle"
    /\ s_start = << >>
    /\ s_target = << >>
    /\ frontier = {}
    /\ visited = << >>
    /\ visited_set = {}
    /\ s_result = "done"
    /\ s_path = None
    /\ expanded = << >>
    /\ no_loop
    /\ n_word = None
    /\ n_result = {}
    /\ no_suggestion
    /\ no_gui

(* the call, up to the loop: lines 383-387, 417-421, 450-454 *)
SearchBeginOf(algs, starts, targets) ==
    /\ s_alg = "idle" /\ n_word = None
    /\ \E alg \in algs, start \in starts, target \in targets :
         /\ start \in word_set \/ start \notin Corpus \cup TwoLetter
         /\ s_alg' = alg
         /\ s_start' = start
         /\ s_target' = target
         /\ s_path' = None
         /\ expanded' = << >>
         /\ IF ~(is_valid_word(Self, start) /\ is_valid_word(Self, target))
            THEN /\ s_result' = "done"
                 /\ UNCHANGED <<frontier, visited, visited_set>>
            ELSE /\ s_result' = "running"
                 /\ frontier' = search_init(alg, start, target).frontier
                 /\ IF alg = "greedy"
                    THEN /\ visited_set' = search_init(alg, start, target).visited
                         /\ UNCHANGED visited
                    ELSE /\ visited' = search_init(alg, start, target).visited
                         /\ UNCHANGED visited_set
    /\ UNCHANGED <<word_set, gameVars, loopVars, neighborVars, suggestVars, guiVars>>

SearchBegin == SearchBeginOf(Algorithms, SearchStarts, SearchTargets)

(* one iteration of the loop: lines 389-401, 423-434, 456-467 *)
SearchStep ==
    /\ s_result = "running"
    /\ IF frontier = {}
       THEN /\ s_result' = "done"
            /\ s_path' = None
            /\ UNCHANGED <<frontier, visited, visited_set, expanded>>
       ELSE LET e == heappop(frontier)
            IN  IF e.word = s_target
                THEN /\ s_result' = "done"
                     /\ s_path' = e.path
                     /\ frontier' = frontier \ {e}
                     /\ UNCHANGED <<visited, visited_set, expanded>>
                ELSE LET vis == IF s_alg = "greedy" THEN visited_set ELSE visited
                         nxt == search_expand(s_alg, Self, e, frontier \ {e},
                                              vis, s_target)
                     IN  /\ frontier' = nxt.frontier
                         /\ IF s_alg = "greedy"
                            THEN /\ visited_set' = nxt.visited
                                 /\ UNCHANGED visited
                            ELSE /\ visited' = nxt.visited
                                 /\ UNCHANGED visited_set
                         /\ expanded' = Append(expanded, e.word)
                         /\ UNCHANGED <<s_result, s_path>>
    /\ UNCHANGED <<word_set, gameVars, loopVars, neighborVars, suggestVars, guiVars, s_alg, s_start, s_target>>

(* a call of get_neighbors, lines 124-134 *)
GetNeighbors ==
    /\ s_alg = "idle" /\ n_word = None
    /\ \E word \in SearchStarts :
         /\ n_word' = word
         /\ n_result' = get_neighbors(Self, word)
    /\ UNCHANGED <<word_set, gameVars, searchVars, loopVars, suggestVars, guiVars>>

SearchNext == SearchBegin \/ SearchStep \/ GetNeighbors

SearchSpec == SearchInit /\ [][SearchNext]_vars

(* The calls of greedy_best_first_search alone.  A call that entered its    *)
(* loop keeps running: the while of line 423 takes its next iteration.     *)
GreedyBegin == SearchBeginOf({"greedy"}, SearchStarts, SearchTargets)

GreedyNext == GreedyBegin \/ SearchStep \/ GetNeighbors

GreedyFair == SearchInit /\ [][GreedyNext]_vars /\ WF_vars(SearchStep)

-----------------------------------------------------------------------------
(* The same runs with the for loop over the neighbours taken one neighbour *)
(* per step.  get_neighbors returns a Python set of strings, whose         *)
(* iteration order changes from one process to the next, so the loop takes *)
(* the neighbours in any order.  The frontier is the list of its entries   *)
(* in the order they were pushed; heapq.heappop removes a least one.       *)

RunBanned == { {}, { <<3,15,20>> }, { <<4,2,1>> } }                  \* {}, {cot}, {dba}

RunStarts == { w \in Corpus : Len(w) = 3 } \cup { <<3,1,2>> }     \* and cab, no word

RunTargets == { <<4,15,7>>, <<1,1,1>>, <<24,26,26>> }          \* dog, aaa, xzz

RunInit ==
    /\ SearchInit
    /\ word_set = Corpus
    /\ banned_words \in RunBanned

Remove(seq, i) == [k \in 1..(Len(seq) - 1) |-> IF k < i THEN seq[k] ELSE seq[k + 1]]

(* the entries heappop may return: those with no smaller entry in the heap *)
heap_min_by_priority(h) ==
    { i \in 1..Len(h) : \A j \in 1..Len(h) : h[j].pri >= h[i].pri }

heap_min(h) ==
    { i \in 1..Len(h) : \A j \in 1..Len(h) : ~EntryLess(h[j], h[i]) }

(* a_star_search, lines 396-400: the body of the for loop for one neighbour *)
a_star_visit(e, n, h, vis, target) ==
    LET new_cost == e.cost + 1
    IN  IF n \notin DOMAIN vis \/ new_cost < vis[n]
        THEN [heap    |-> Append(h, Entry(Plus(new_cost, heuristic(n, target)), new_cost,
                                          n, Append(e.path, n))),
              visited |-> SetCost(vis, {n}, new_cost)]
        ELSE [heap |-> h, visited |-> vis]

(* greedy_best_first_search, lines 430-433 *)
greedy_visit(e, n, h, vis, target) ==
    IF n \notin vis
    THEN [heap    |-> Append(h, Entry(heuristic(n, target), 0, n, Append(e.path, n))),
          visited |-> vis \cup {n}]
    ELSE [heap |-> h, visited |-> vis]

(* uniform_cost_search, lines 463-466 *)
uniform_visit(e, n, h, vis, target) ==
    LET new_cost == e.cost + 1
    IN  IF n \notin DOMAIN vis \/ new_cost < vis[n]
        THEN [heap    |-> Append(h, Entry(new_cost, new_cost, n, Append(e.path, n))),
              visited |-> SetCost(vis, {n}, new_cost)]
        ELSE [heap |-> h, visited |-> vis]

search_visit(alg, e, n, h, vis, target) ==
    CASE alg = "a_star"  -> a_star_visit(e, n, h, vis, target)
      [] alg = "greedy"  -> greedy_visit(e, n, h, vis, target)
      [] alg = "uniform" -> uniform_visit(e, n, h, vis, target)

(* the call, up to the loop: lines 383-387, 417-421, 450-454 *)
RunBegin ==
    /\ s_alg = "idle"
    /\ \E alg \in Algorithms, start \in RunStarts, target \in RunTargets :
         /\ s_alg' = alg
         /\ s_start' = start
         /\ s_target' = target
         /\ s_path' = None
         /\ IF ~(is_valid_word(Self, start) /\ is_valid_word(Self, target))
            THEN /\ s_result' = "done"
                 /\ UNCHANGED <<heap, visited, visited_set>>
            ELSE /\ s_result' = "running"
                 /\ heap' = << heappop(search_init(alg, start, target).frontier) >>
                 /\ IF alg = "greedy"
                    THEN /\ visited_set' = search_init(alg, start, target).visited
                         /\ UNCHANGED visited
                    ELSE /\ visited' = search_init(alg, start, target).visited
                         /\ UNCHANGED visited_set
    /\ UNCHANGED <<word_set, gameVars, frontier, expanded, cur, pending, other,
                   neighborVars, suggestVars, guiVars>>

(* the head of the while loop and the pop: lines 389-393, 423-427, 456-460 *)
RunPop ==
    /\ s_result = "running" /\ pending = {}
    /\ IF heap = << >>
       THEN /\ s_result' = "done"
            /\ s_path' = None
            /\ UNCHANGED <<heap, cur, pending, expanded>>
       ELSE \E i \in heap_min(heap) :
              /\ heap' = Remove(heap, i)
              /\ cur' = heap[i]
              /\ IF heap[i].word = s_target
                 THEN /\ s_result' = "done"
                      /\ s_path' = heap[i].path
                      /\ UNCHANGED <<pending, expanded>>
                 ELSE /\ pending' = get_neighbors(Self, heap[i].word)
                      /\ expanded' = Append(expanded, heap[i].word)
                      /\ UNCHANGED <<s_result, s_path>>
    /\ UNCHANGED <<word_set, gameVars, s_alg, s_start, s_target, frontier, visited,
                   visited_set, other, neighborVars, suggestVars, guiVars>>

(* the body of the for loop for the neighbour it reaches next: lines       *)
(* 395-400, 429-433, 462-466                                               *)
RunVisit ==
    /\ s_result = "running" /\ pending # {}
    /\ \E n \in pending :
         LET vis == IF s_alg = "greedy" THEN visited_set ELSE visited
             r   == search_visit(s_alg, cur, n, heap, vis, s_target)
         IN  /\ heap' = r.heap
             /\ IF s_alg = "greedy"
                THEN /\ visited_set' = r.visited
                     /\ UNCHANGED visited
                ELSE /\ visited' = r.visited
                     /\ UNCHANGED visited_set
             /\ pending' = pending \ {n}
    /\ UNCHANGED <<word_set, gameVars, s_alg, s_start, s_target, frontier, s_result,
                   s_path, expanded, cur, other, neighborVars, suggestVars, guiVars>>

RunNext == RunBegin \/ RunPop \/ RunVisit

RunSpec == RunInit /\ [][RunNext]_vars

-----------------------------------------------------------------------------
(* Two search calls on one object, their loop iterations interleaved in    *)
(* any order (two threads, or a caller that alternates two generators).    *)
(* The first call is the run above; the second keeps its arguments and     *)
(* locals in other.                                                        *)

TwoStarts == { <<3,1,20>>, <<4,3,1>> }                          \* cat, dca

TwoTargets == { <<4,15,7>>, <<1,1,1>> }                         \* dog, aaa

OtherTarget == <<1,1,1>>                                         \* aaa

TwoCallsInit ==
    /\ SearchInit
    /\ word_set = Corpus
    /\ banned_words = {}

(* visited is a local of the call (lines 387, 421, 454), not a field of    *)
(* the object: a call reads its own                                         *)
run_visited_on_object(own, shared) == shared

run_visited(own, shared) == own

FirstBegin == SearchBeginOf(Algorithms, TwoStarts, TwoTargets)

(* the second call, up to its loop *)
OtherBegin ==
    /\ other.alg = "idle"
    /\ \E alg \in Algorithms, start \in TwoStarts, target \in {OtherTarget} :
         other' = IF ~(is_valid_word(Self, start) /\ is_valid_word(Self, target))
                  THEN [no_other EXCEPT !.alg = alg, !.start = start, !.target = target]
                  ELSE [alg |-> alg, start |-> start, target |-> target,
                        frontier |-> search_init(alg, start, target).frontier,
                        visited |-> search_init(alg, start, target).visited,
                        result |-> "running", path |-> None,
                        seen |-> Len(expanded), mixed |-> FALSE]
    /\ UNCHANGED <<word_set, gameVars, searchVars, heap, cur, pending, neighborVars,
                   suggestVars, guiVars>>

(* one iteration of the loop of the second call; seen and mixed record     *)
(* whether the first call took an iteration since the last one of this call *)
OtherStep ==
    /\ other.result = "running"
    /\ LET noted == [other EXCEPT !.seen = Len(expanded),
                                  !.mixed = @ \/ Len(expanded) > other.seen]
       IN  IF other.frontier = {}
           THEN other' = [noted EXCEPT !.result = "done", !.path = None]
           ELSE LET e == heappop(other.frontier)
                IN  IF e.word = other.target
                    THEN other' = [noted EXCEPT !.result = "done", !.path = e.path,
                                                !.frontier = other.frontier \ {e}]
                    ELSE LET vis == run_visited(other.visited,
                                                IF other.alg = "greedy" THEN visited_set
                                                ELSE visited)
                             nxt == search_expand(other.alg, Self, e, other.frontier \ {e},
                                                  vis, other.target)
                         IN  other' = [noted EXCEPT !.frontier = nxt.frontier,
                                                    !.visited = nxt.visited]
    /\ UNCHANGED <<word_set, gameVars, searchVars, heap, cur, pending, neighborVars,
                   suggestVars, guiVars>>

TwoCallsNext == FirstBegin \/ SearchStep \/ OtherBegin \/ OtherStep

TwoCallsSpec == TwoCallsInit /\ [][TwoCallsNext]_vars

-----------------------------------------------------------------------------
(* One call of suggest_word_pair (lines 136-198) on a game object, one     *)
(* iteration of the loop of line 159 per step.  The corpus and the banned  *)
(* set of the object are inputs of the call.                                *)

max_attempts == 50

(* random.randint of lines 141-146 *)
WordLengths(d) ==
    CASE d = "beginner" -> 3..4
      [] d = "advanced" -> 5..6
      [] OTHER          -> 6..8

(* random.randint of lines 165-169 *)
TargetDistances(d) ==
    CASE d = "beginner" -> 2..4
      [] d = "advanced" -> 4..7
      [] OTHER          -> 7..10

(* lines 149-152 *)
valid_words(self, word_length) ==
    { word \in self.word_set :
        /\ Len(word) = word_length
        /\ word \notin self.banned_words
        /\ \A i \in 1..Len(word) : word[i] \in AsciiLowercase }

(* the loop of lines 172-182 without the visited test of line 177 *)
RECURSIVE bfs_levels_without_visited(_, _, _, _, _)
bfs_levels_without_visited(self, word_length, visited_, current_level, n) ==
    IF n = 0 THEN current_level
    ELSE LET next_level ==
                 { neighbor \in UNION { get_neighbors(self, word) : word \in current_level } :
                     Len(neighbor) = word_length }
         IN  IF next_level = {} THEN {}
             ELSE bfs_levels_without_visited(self, word_length, visited_ \cup next_level,
                                             next_level, n - 1)

(* lines 172-182: current_level after n more iterations of the loop *)
RECURSIVE bfs_levels(_, _, _, _, _)
bfs_levels(self, word_length, visited_, current_level, n) ==
    IF n = 0 THEN current_level
    ELSE LET next_level ==
                 { neighbor \in UNION { get_neighbors(self, word) : word \in current_level } :
                     neighbor \notin visited_ /\ Len(neighbor) = word_length }
         IN  IF next_level = {} THEN {}
             ELSE bfs_levels(self, word_length, visited_ \cup next_level, next_level, n - 1)

(* lines 163-186: potential_targets ({} when current_level is empty) *)
potential_targets(self, word_length, start_word, target_distance) ==
    bfs_levels(self, word_length, {start_word}, {start_word}, target_distance)
        \ {start_word}

(* the same, tabulated for the objects of SuggestCorpus *)
LevelTable ==
    [B \in TabulatedBanned |->
        [start_word \in SuggestCorpus |->
            [target_distance \in 2..10 |->
                potential_targets([word_set |-> SuggestCorpus, banned_words |-> B],
                                  Len(start_word), start_word, target_distance)]
            @@ << >>]
        @@ << >>]
    @@ << >>

targets(self, word_length, start_word, target_distance) ==
    IF /\ self.word_set = SuggestCorpus
       /\ self.banned_words \in TabulatedBanned
       /\ start_word \in SuggestCorpus /\ word_length = Len(start_word)
       /\ target_distance \in 2..10
    THEN LevelTable[self.banned_words][start_word][target_distance]
    ELSE potential_targets(self, word_length, start_word, target_distance)

(* a_star_search on the pairs an attempt can verify, tabulated likewise *)
PairTargets(B, start_word) == UNION { LevelTable[B][start_word][n] : n \in 2..10 }

PairTable ==
    [B \in TabulatedBanned |->
        [start_word \in SuggestCorpus |->
            [target_word_ \in PairTargets(B, start_word) |->
                a_star_search([word_set |-> SuggestCorpus, banned_words |-> B],
                              start_word, target_word_)]
            @@ << >>]
        @@ << >>]
    @@ << >>

verify(self, start_word, target_word_) ==
    IF /\ self.word_set = SuggestCorpus
       /\ self.banned_words \in TabulatedBanned
       /\ start_word \in SuggestCorpus
       /\ target_word_ \in PairTargets(self.banned_words, start_word)
    THEN PairTable[self.banned_words][start_word][target_word_]
    ELSE a_star_search(self, start_word, target_word_)

(* lines 190-195 without the test of the path length *)
verified_path_only(self, d, start_word, target_word_) ==
    verify(self, start_word, target_word_) # None

(* lines 190-195 *)
verified(self, d, start_word, target_word_) ==
    LET path == verify(self, start_word, target_word_)
        path_length == Len(path) - 1
    IN  /\ path # None
        /\ \/ d = "beginner" /\ 2 <= path_length /\ path_length <= 4
           \/ d = "advanced" /\ 4 <= path_length /\ path_length <= 7
           \/ d = "challenge" /\ path_length >= 7

(* range(max_attempts) with one iteration more *)
attempts_left_one_more(attempts) == attempts <= max_attempts

(* `for _ in range(max_attempts)`, line 159, after `attempts` iterations *)
attempts_left(attempts) == attempts < max_attempts

SuggestInit ==
    /\ word_set = SuggestCorpus
    /\ banned_words \in SuggestBanned
    /\ current_word = << >>
    /\ target_word = << >>
    /\ path_history = << >>
    /\ start_time = FALSE
    /\ elapsed = 0
    /\ score = 0
    /\ difficulty = "beginner"
    /\ hints_remaining = Inf
    /\ time_limit = Inf
    /\ hints_used = 0
    /\ base_score = 1000
    /\ optimal_path_bonus = None
    /\ time_factor = None
    /\ move_factor = None
    /\ hint_factor = None
    /\ graph = [nodes |-> {}, edges |-> {}]
    /\ op = "__init__"
    /\ ret = "None"
    /\ hint = None
    /\ calls = 0
    /\ s_alg = "idle"
    /\ s_start = << >>
    /\ s_target = << >>
    /\ frontier = {}
    /\ visited = << >>
    /\ visited_set = {}
    /\ s_result = "done"
    /\ s_path = None
    /\ expanded = << >>
    /\ no_loop
    /\ n_word = None
    /\ n_result = {}
    /\ no_suggestion
    /\ no_gui

(* the call, up to the loop: lines 138-158 *)
SuggestBegin ==
    /\ g_state = "idle"
    /\ \E d \in Difficulties : \E word_length \in WordLengths(d) :
         /\ g_difficulty' = d
         /\ g_word_length' = word_length
         /\ g_valid_words' = valid_words(Self, word_length)
         /\ g_state' = IF Cardinality(valid_words(Self, word_length)) < 2
                       THEN "returned" ELSE "loop"
    /\ UNCHANGED <<g_attempts, g_try, g_pair>>
    /\ UNCHANGED <<word_set, gameVars, searchVars, loopVars, neighborVars, guiVars>>

(* one iteration of the loop, lines 160-196 *)
SuggestAttempt ==
    /\ g_state = "loop"
    /\ attempts_left(g_attempts)
    /\ g_attempts' = g_attempts + 1
    /\ \E start_word \in g_valid_words :
       \E target_distance \in TargetDistances(g_difficulty) :
         LET potential == targets(Self, g_word_length, start_word, target_distance)
         IN  IF potential = {}
             THEN /\ g_try' = <<start_word, None>>
                  /\ UNCHANGED <<g_state, g_pair>>
             ELSE \E target_word_ \in potential :
                    /\ g_try' = <<start_word, target_word_>>
                    /\ IF verified(Self, g_difficulty, start_word, target_word_)
                       THEN /\ g_state' = "returned"
                            /\ g_pair' = <<start_word, target_word_>>
                       ELSE UNCHANGED <<g_state, g_pair>>
    /\ UNCHANGED <<g_difficulty, g_word_length, g_valid_words>>
    /\ UNCHANGED <<word_set, gameVars, searchVars, loopVars, neighborVars, guiVars>>

(* the loop is exhausted, line 198 *)
SuggestExhausted ==
    /\ g_state = "loop"
    /\ ~attempts_left(g_attempts)
    /\ g_state' = "returned"
    /\ g_pair' = <<None, None>>
    /\ UNCHANGED <<g_difficulty, g_word_length, g_valid_words, g_attempts, g_try>>
    /\ UNCHANGED <<word_set, gameVars, searchVars, loopVars, neighborVars, guiVars>>

SuggestNext == SuggestBegin \/ SuggestAttempt \/ SuggestExhausted

SuggestSpec == SuggestInit /\ [][SuggestNext]_vars

(* the call is not suspended for ever: the program is a single thread that *)
(* runs the loop to its end                                                 *)
SuggestFair == SuggestSpec /\ WF_vars(SuggestNext)

-----------------------------------------------------------------------------
(* What the claims are stated with: validity as the specification defines  *)
(* it, and the adjacency graph of the valid words under a banned set B      *)

IsValid(B, w) == lower(w) \in word_set /\ lower(w) \notin B

OneLetterApart(a, b) ==
    Len(a) = Len(b) /\ Cardinality({ i \in 1..Len(a) : a[i] # b[i] }) = 1

(* the number of edges of a shortest path from the words of layer (at      *)
(* distance k from the start) to target, Inf if there is none               *)
RECURSIVE BreadthFirst(_, _, _, _, _)
BreadthFirst(B, seen, layer, target, k) ==
    IF target \in layer THEN k
    ELSE IF layer = {} THEN Inf
    ELSE LET nxt == { w \in (word_set \ B) \ seen : \E v \in layer : OneLetterApart(v, w) }
         IN  BreadthFirst(B, seen \cup nxt, nxt, target, k + 1)

ShortestDistance(B, a, b) == BreadthFirst(B, {a}, {a}, b, 0)

SearchDone == s_alg \in Algorithms /\ s_result = "done"

(* start and target are valid words of equal length *)
ValidPair == /\ s_start \in word_set \ banned_words
             /\ s_target \in word_set \ banned_words
             /\ Len(s_start) = Len(s_target)

-----------------------------------------------------------------------------
(* C1: for valid, equal-length start and target with target reachable,     *)
(* uniform_cost_search returns a path, and the number of its edges is the  *)
(* breadth-first distance from start to target among the valid words.       *)
C1_UniformCostOptimal ==
    (SearchDone /\ s_alg = "uniform" /\ ValidPair
       /\ ShortestDistance(banned_words, s_start, s_target) # Inf)
    => /\ s_path # None
       /\ Len(s_path) - 1 = ShortestDistance(banned_words, s_start, s_target)

(* a uniform-cost run that returned a path of three edges where a_star     *)
(* returns one of four, under a banned set that is not empty                *)
C1_Witness ==
    /\ SearchDone /\ s_alg = "uniform" /\ ValidPair
    /\ s_path # None /\ Len(s_path) >= 4
    /\ Len(s_path) < Len(search("a_star", Self, s_start, s_target))

(* C2, amended: among the valid words the neighbour relation is symmetric: *)
(* for valid a and b, b is in get_neighbors(a) iff a is in get_neighbors(b) *)
C2_SymmetricAmongValid ==
    (n_word \in word_set \ banned_words)
    => \A b \in word_set \ banned_words :
           b \in n_result <=> n_word \in get_neighbors(Self, b)

(* get_neighbors of a valid word returned neighbours, under a banned set   *)
(* that is not empty                                                        *)
C2_Witness ==
    /\ n_word \in word_set \ banned_words
    /\ n_result # {}
    /\ banned_words # {}

(* C2 as stated: for all words a and b of the corpus, under any banned     *)
(* set, b is in get_neighbors(a) iff a is in get_neighbors(b)                *)
C2_SymmetricInCorpus ==
    (n_word \in word_set)
    => \A b \in word_set : b \in n_result <=> n_word \in get_neighbors(Self, b)

(* C3: a path returned by any of the three searches starts at start, ends  *)
(* at target, holds only valid words, and consecutive words have the same  *)
(* length and differ in exactly one position.                               *)
C3_WellFormedLadder ==
    (SearchDone /\ s_path # None)
    => /\ s_path[1] = s_start
       /\ s_path[Len(s_path)] = s_target
       /\ \A i \in 1..Len(s_path) : IsValid(banned_words, s_path[i])
       /\ \A i \in 1..(Len(s_path) - 1) : OneLetterApart(s_path[i], s_path[i + 1])

(* greedy_best_first_search returned a path of four edges under a banned   *)
(* set that is not empty                                                    *)
C3_Witness ==
    /\ SearchDone /\ s_alg = "greedy"
    /\ s_path # None /\ Len(s_path) = 5
    /\ banned_words # {}

(* C4: for valid, equal-length start and target each search returns None   *)
(* exactly when target is not reachable from start among the valid words   *)
(* (so the three searches agree on whether a path exists).                  *)
C4_NoneIffUnreachable ==
    (SearchDone /\ ValidPair)
    => (s_path = None <=> ShortestDistance(banned_words, s_start, s_target) = Inf)

(* a_star_search emptied its frontier on a valid pair and returned None    *)
C4_Witness ==
    /\ SearchDone /\ s_alg = "a_star" /\ ValidPair
    /\ s_path = None
    /\ Cardinality(DOMAIN visited) >= 3

-----------------------------------------------------------------------------
(* The game object after the step *)
SelfNext ==
    [word_set |-> word_set', banned_words |-> banned_words',
     current_word |-> current_word', target_word |-> target_word',
     path_history |-> path_history', start_time |-> start_time', elapsed |-> elapsed',
     score |-> score', difficulty |-> difficulty', hints_remaining |-> hints_remaining',
     time_limit |-> time_limit', hints_used |-> hints_used',
     base_score |-> base_score', optimal_path_bonus |-> optimal_path_bonus',
     time_factor |-> time_factor', move_factor |-> move_factor',
     hint_factor |-> hint_factor', graph |-> graph']

(* what C5 expects of a word w for make_move(w) to return true *)
MoveExpected(w) ==
    /\ lower(w) \in word_set
    /\ lower(w) \notin banned_words
    /\ Len(w) = Len(current_word)
    /\ Cardinality({ i \in 1..Len(w) : lower(w)[i] # current_word[i] }) = 1

(* C5 as stated: in a started session make_move(w) returns true iff w,     *)
(* lower-cased, is in the corpus, is not banned, has the length of the     *)
(* current word and differs from it in exactly one position.                *)
C5_MoveAcceptedIff ==
    (start_time = TRUE)
    => \A w \in MoveInputs : make_move(Self, w).ret = "True" <=> MoveExpected(w)

(* the step is a make_move call that returned true *)
MoveAccepted == op' = "make_move" /\ calls' = calls + 1 /\ ret' = "True"

(* C6: an accepted make_move(w) appends w (lower-cased) to the path        *)
(* history and makes it the current word, leaves target word, hint         *)
(* counters, difficulty and banned set unchanged, and if w is the target   *)
(* the score is computed in the same step and is_game_over() is true then.  *)
C6_AcceptedMoveEffect ==
    [][MoveAccepted =>
         /\ \E w \in MoveInputs : /\ path_history' = Append(path_history, lower(w))
                                  /\ current_word' = lower(w)
         /\ UNCHANGED <<target_word, hints_remaining, hints_used, difficulty, banned_words>>
         /\ (current_word' = target_word
               => score' = score_value(SelfNext) /\ is_game_over(SelfNext))]_vars

(* a second move was accepted, reached the target, and a score was computed *)
C6_Witness ==
    /\ op = "make_move" /\ ret = "True"
    /\ Len(path_history) = 3
    /\ current_word = target_word
    /\ score > 0

(* C7: start_game returns true only if start and target have equal length, *)
(* both are valid under the banned set the call installed, and target is   *)
(* reachable from start (a call for which one of these fails returns        *)
(* false).  After such a call the current word is start, the target word   *)
(* is target and the banned set is the installed one.                       *)
C7_AcceptedOnlyIf ==
    (op = "start_game")
    => /\ ret \in {"True", "False"}
       /\ ret = "True"
            => /\ Len(path_history[1]) = Len(target_word)
               /\ IsValid(banned_words, path_history[1])
               /\ IsValid(banned_words, target_word)
               /\ ShortestDistance(banned_words, path_history[1], target_word) # Inf

(* a challenge game was accepted under a banned set that is not empty,     *)
(* after another call had been made on the object                           *)
C7_Witness ==
    /\ op = "start_game" /\ ret = "True"
    /\ difficulty = "challenge" /\ banned_words # {}
    /\ calls >= 2

(* the range of the difficulty, as C8 gives it *)
InRange(d, L) ==
    CASE d = "beginner"  -> L <= 4
      [] d = "advanced"  -> 4 <= L /\ L <= 7
      [] d = "challenge" -> L >= 7

(* C8 as stated: for valid, equal-length, connected start and target with  *)
(* true shortest path length L, start_game accepts exactly when L is in    *)
(* the range of the difficulty.                                             *)
C8_AcceptedIffInRange ==
    \A p \in StartInputs : \A B \in ObservedSamples(Self, p[3]) :
        LET a == lower(p[1])
            b == lower(p[2])
            L == ShortestDistance(B, a, b)
        IN  (Len(a) = Len(b) /\ IsValid(B, a) /\ IsValid(B, b) /\ L # Inf)
            => (start_game(Self, p[1], p[2], p[3], B).ret = "True" <=> InRange(p[3], L))

(* C9 as stated: right after start_game returned true, before any time has *)
(* elapsed, is_game_over() is false and the current word is not the target. *)
C9_StartedInProgress ==
    (op = "start_game" /\ ret = "True" /\ elapsed = 0)
    => ~is_game_over(Self) /\ current_word # target_word

(* the hint budget of the difficulty, as C10 gives it *)
HintBudget(d) ==
    CASE d = "beginner"  -> 5
      [] d = "advanced"  -> 3
      [] d = "challenge" -> 1

(* C10: whatever the state before, a start_game(start, target, d) that     *)
(* returns true leaves path history [start] (lower-cased), current word    *)
(* start, target word target, hints_used 0, hints_remaining the budget of  *)
(* d, the time limit of d and score 0.                                      *)
C10_FreshSession ==
    \A p \in StartInputs : \A B \in ObservedSamples(Self, p[3]) :
        LET r == start_game(Self, p[1], p[2], p[3], B)
        IN  r.ret = "True"
            => /\ r.self.path_history = << lower(p[1]) >>
               /\ r.self.current_word = lower(p[1])
               /\ r.self.target_word = lower(p[2])
               /\ r.self.hints_used = 0
               /\ r.self.hints_remaining = HintBudget(p[3])
               /\ r.self.time_limit = DIFFICULTY_SETTINGS[p[3]].time_limit
               /\ r.self.score = 0

(* a game was accepted on an object whose last session had used a hint and *)
(* made a move                                                               *)
C10_Witness ==
    /\ op = "start_game" /\ ret = "True"
    /\ calls = 4
    /\ difficulty = "advanced" /\ hints_remaining = 3 /\ hints_used = 0
    /\ path_history = << <<24,24,24>> >>

-----------------------------------------------------------------------------
(* the step is a make_move or a get_hint call *)
MoveOrHint == calls' = calls + 1 /\ op' \in {"make_move", "get_hint"}

(* C11 as stated: once a move has made the current word the target, no     *)
(* later make_move or get_hint changes the current word, the path history  *)
(* or the hint counters, and is_game_over() is still true after it.         *)
C11_WonTerminal ==
    [][(/\ start_time = TRUE /\ Len(path_history) > 1
        /\ current_word = target_word
        /\ MoveOrHint)
       => /\ UNCHANGED <<current_word, path_history, hints_remaining, hints_used>>
          /\ is_game_over(SelfNext)]_vars

(* C12 as stated: in a session with a finite time limit, once the elapsed  *)
(* time exceeds the limit while the current word is not the target, every  *)
(* later make_move is rejected and every later get_hint returns none, and  *)
(* current word, path history and hint counters do not change.              *)
C12_TimedOutTerminal ==
    [][(/\ start_time = TRUE /\ time_limit # Inf /\ elapsed > time_limit
        /\ current_word # target_word
        /\ MoveOrHint)
       => /\ op' = "make_move" => ret' = "False"
          /\ op' = "get_hint" => ret' = "None"
          /\ UNCHANGED <<current_word, path_history, hints_remaining, hints_used>>]_vars

(* C13: get_hint returns none and changes no counter when the current word *)
(* is the target or hints_remaining is 0; otherwise it takes 1 from        *)
(* hints_remaining and adds 1 to hints_used, whether or not the search     *)
(* finds a path; it never changes the current word or the path history.     *)
C13_HintCounters ==
    [][(calls' = calls + 1 /\ op' = "get_hint")
       => /\ UNCHANGED <<current_word, path_history>>
          /\ IF current_word = target_word \/ hints_remaining = 0
             THEN ret' = "None" /\ UNCHANGED <<hints_remaining, hints_used>>
             ELSE /\ hints_remaining' = hints_remaining - 1
                  /\ hints_used' = hints_used + 1]_vars

(* a hint was asked for, the search found no path and none was returned,   *)
(* and the last hint of the budget is spent                                 *)
C13_Witness ==
    /\ op = "get_hint" /\ ret = "None"
    /\ current_word # target_word
    /\ hints_used = 1 /\ hints_remaining = 0

(* C14 as stated: a word w that get_hint returns is valid, differs from    *)
(* the current word in exactly one position, and a make_move(w) issued     *)
(* immediately afterwards returns true.                                     *)
C14_HintIsAcceptedMove ==
    (op = "get_hint" /\ ret = "word")
    => /\ IsValid(banned_words, hint)
       /\ OneLetterApart(hint, current_word)
       /\ make_move(Self, hint).ret = "True"

(* the limit of the session is finite and the elapsed time is beyond it *)
TimeExceeded == time_limit # Inf /\ elapsed > time_limit

(* C15 as stated: in a started session is_game_over() is true exactly when *)
(* the current word is the target or the elapsed time strictly exceeds the *)
(* time limit (never, for the unbounded limit).                             *)
C15_GameOverIff ==
    (start_time = TRUE)
    => (is_game_over(Self) <=> (current_word = target_word \/ TimeExceeded))

(* C16 as stated: in every state reached after a successful start_game,    *)
(* by make_move, get_hint and accepted or rejected start_game calls and    *)
(* at any elapsed time, calculate_score() returns an integer >= 0.          *)
C16_ScoreNonNegative ==
    (start_time = TRUE)
    => LET r == calculate_score(Self)
       IN  r.ret = "int" /\ r.self.score >= 0

(* the object with another number of hints used *)
WithHintsUsed(h) == [Self EXCEPT !.hints_used = h]

(* C17: with difficulty, path history and elapsed time held fixed, the     *)
(* score is non-increasing in hints_used: the score with h + 1 hints used  *)
(* is at most the score with h hints used.                                  *)
C17_ScoreMonotoneInHints ==
    (start_time = TRUE /\ ~calculate_score_raises(Self))
    => \A h \in 0..DIFFICULTY_SETTINGS["beginner"].hint_limit :
          score_value(WithHintsUsed(h + 1)) <= score_value(WithHintsUsed(h))

(* a score was computed after two hints, and it is less than it would be   *)
(* after one                                                                *)
C17_Witness ==
    /\ op = "calculate_score" /\ ret = "int"
    /\ hints_used = 2
    /\ score = score_value(Self)
    /\ score < score_value(WithHintsUsed(1))

(* the settings of the difficulty after the step *)
SettingsNext == DIFFICULTY_SETTINGS[difficulty']

(* C18: a move that reaches the target with no more moves than the         *)
(* recomputed optimal length (extra_moves = 0) is scored with the full     *)
(* optimal_path_bonus and no move penalty; on beginner with no hints used  *)
(* that is at least base_score + optimal_path_bonus - 0.3 * base_score     *)
(* = 1000 at any elapsed time; and is_game_over() is true after the move.   *)
C18_FullBonusAtOptimum ==
    [][(/\ MoveAccepted
        /\ current_word' = target_word'
        /\ Len(path_history') - 1
             <= Len(call("a_star", SelfNext, path_history'[1], target_word')) - 1)
       => /\ score' = Max(0, SettingsNext.base_score + SettingsNext.optimal_path_bonus
                             + TimeComponent(SelfNext, SettingsNext.base_score,
                                             SettingsNext.time_factor, elapsed')
                             - HintPenalty(SettingsNext.hint_factor, hints_used'))
          /\ (difficulty' = "beginner" /\ hints_used' = 0)
               => /\ score' >= SettingsNext.base_score + SettingsNext.optimal_path_bonus
                                 - (3 * SettingsNext.base_score) \div 10
                  /\ score' >= 1000
          /\ is_game_over(SelfNext)]_vars

(* cat -> cot -> .. -> dog was played in the three moves of the optimal    *)
(* path, slowly enough for the time penalty to reach its cap                *)
C18_Witness ==
    /\ op = "make_move" /\ ret = "True"
    /\ path_history[1] = <<3,1,20>> /\ current_word = <<4,15,7>>
    /\ current_word = target_word
    /\ Len(path_history) = 4
    /\ difficulty = "beginner" /\ hints_used = 0
    /\ elapsed = 310 /\ score = 1000

-----------------------------------------------------------------------------
(* a pair of words was returned by suggest_word_pair *)
PairReturned == g_state = "returned" /\ g_pair # <<None, None>>

(* the range of the difficulty, as C19 gives it *)
InSuggestedRange(d, L) ==
    CASE d = "beginner"  -> 2 <= L /\ L <= 4
      [] d = "advanced"  -> 4 <= L /\ L <= 7
      [] d = "challenge" -> L >= 7

(* C19: every result of suggest_word_pair(difficulty) other than           *)
(* (none, none) is a pair of distinct valid words of equal length for      *)
(* which a_star_search, under the banned set of the call, returns a path   *)
(* whose length is in [2,4] for beginner, [4,7] for advanced and >= 7 for  *)
(* challenge.                                                               *)
C19_SuggestionBounds ==
    PairReturned
    => LET s == g_pair[1]
           t == g_pair[2]
           path == a_star_search(Self, s, t)
       IN  /\ s # t
           /\ IsValid(banned_words, s) /\ IsValid(banned_words, t)
           /\ Len(s) = Len(t)
           /\ path # None
           /\ InSuggestedRange(g_difficulty, Len(path) - 1)

(* a challenge pair was returned by an attempt that was not the first *)
C19_Witness ==
    /\ PairReturned
    /\ g_difficulty = "challenge"
    /\ g_attempts >= 2
    /\ Len(a_star_search(Self, g_pair[1], g_pair[2])) - 1 >= 7

(* the pair tried by the last iteration passes the verification *)
Passes(try) == try[2] # None /\ verified(Self, g_difficulty, try[1], try[2])

(* C20: suggest_word_pair always terminates: it makes at most 50 attempts, *)
(* returns the pair of the first attempt that passes verification, and     *)
(* returns (none, none) only when fewer than two valid words of the chosen *)
(* length exist or when all 50 attempts have failed.                        *)
C20_SuggestTerminates ==
    /\ [](g_attempts <= max_attempts)
    /\ <>(g_state = "returned")
    /\ [][(g_state = "loop" /\ g_attempts' = g_attempts + 1)
          => IF Passes(g_try')
             THEN g_state' = "returned" /\ g_pair' = g_try'
             ELSE g_state' = "loop"]_vars
    /\ [](g_state = "returned" /\ g_pair = <<None, None>>
            => \/ Cardinality(g_valid_words) < 2 /\ g_attempts = 0
               \/ g_attempts = max_attempts /\ ~Passes(g_try))

(* all 50 attempts failed and (none, none) was returned *)
C20_Witness ==
    /\ g_state = "returned" /\ g_pair = <<None, None>>
    /\ Cardinality(g_valid_words) >= 2
    /\ g_attempts = max_attempts

-----------------------------------------------------------------------------
(* The runs of the searches, step by step *)

FrontierWords == { e.word : e \in frontier }

NoRepeat(seq) == \A i, j \in 1..Len(seq) : seq[i] = seq[j] => i = j

GreedyRun == s_alg = "greedy" /\ is_valid_word(Self, s_start) /\ is_valid_word(Self, s_target)

(* C21: a run of greedy_best_first_search never revisits a word: the words  *)
(* of the frontier are distinct, were never expanded before and are all     *)
(* marked visited, a step pushes only words that were not visited, no word  *)
(* is expanded twice, and the run ends, with the target popped or with the  *)
(* frontier empty.                                                          *)
C21_GreedyNeverRevisits ==
    /\ [](GreedyRun =>
            /\ NoRepeat(expanded)
            /\ \A e, f \in frontier : e.word = f.word => e = f
            /\ \A i \in 1..Len(expanded) : expanded[i] \notin FrontierWords
            /\ FrontierWords \cup { expanded[i] : i \in 1..Len(expanded) }
                   \subseteq visited_set
            /\ (SearchDone => s_path # None \/ frontier = {}))
    /\ [][GreedyRun => \A e \in frontier' \ frontier : e.word \notin visited_set]_vars
    /\ ((GreedyRun /\ s_result = "running") ~> SearchDone)

(* greedy_best_first_search expanded every word of the eight-word cluster   *)
(* but the target, met visited neighbours on the way, and popped the target *)
C21_Witness ==
    /\ GreedyRun /\ SearchDone
    /\ Len(expanded) >= 6
    /\ s_path # None /\ Len(s_path) < Len(expanded)

(* C22: in a run of a_star_search or uniform_cost_search no word is popped  *)
(* and expanded a second time.                                              *)
C22_SettledOnce ==
    s_alg \in {"a_star", "uniform"} => NoRepeat(expanded)

(* the same of uniform_cost_search alone *)
C22_UniformSettledOnce ==
    s_alg = "uniform" => NoRepeat(expanded)

RunDone == s_alg \in Algorithms /\ s_result = "done" /\ heap # << >>

(* C23: each search is deterministic: whatever the order in which the for   *)
(* loop reaches the neighbours and the order in which the entries were      *)
(* pushed, a finished run returns the one path that the corpus, the banned  *)
(* set, the start and the target determine.                                 *)
C23_SearchDeterministic ==
    SearchDone => s_path = search(s_alg, Self, s_start, s_target)

(* a run returned a path after one pass of its for loop pushed two         *)
(* neighbours of a word in the order opposite to the order of the words     *)
C23_Witness ==
    /\ RunDone /\ s_path # None /\ Len(s_path) >= 4
    /\ \E i \in 1..(Len(heap) - 1) :
         /\ Len(heap[i].path) >= 2
         /\ heap[i].path[Len(heap[i].path) - 1] = heap[i + 1].path[Len(heap[i + 1].path) - 1]
         /\ Len(heap[i].path) = Len(heap[i + 1].path)
         /\ StrLess(heap[i + 1].word, heap[i].word)

(* C24: a_star_search returns an optimal path: for valid start and target   *)
(* with target reachable, the path it returns has as many edges as the      *)
(* breadth-first distance from start to target among the valid words.       *)
C24_AStarOptimal ==
    (SearchDone /\ s_alg = "a_star" /\ ValidPair /\ s_path # None)
    => Len(s_path) - 1 = ShortestDistance(banned_words, s_start, s_target)

-----------------------------------------------------------------------------
(* The banned set *)

(* what the banned set looks like under difficulty d *)
BannedShape(d, B) ==
    IF d = "challenge"
    THEN /\ Cardinality(B) <= 10
         /\ \E L \in 6..8 : \A w \in B : Len(w) = L
    ELSE B = {}

(* C25: the banned set is always a subset of the corpus; under challenge it *)
(* holds at most 10 words, all of one length between 6 and 8, and under     *)
(* beginner and advanced it is empty; so is every set setup_difficulty can  *)
(* draw in the state.                                                       *)
C25_BannedSetShape ==
    /\ banned_words \subseteq word_set
    /\ BannedShape(difficulty, banned_words)
    /\ \A d \in Difficulties : \A B \in BannedSamples(Self, d) :
          B \subseteq word_set /\ BannedShape(d, B)

(* a challenge setup banned ten six-letter words of a corpus that has more, *)
(* after an earlier game, and the start was rejected                        *)
C25_Witness ==
    /\ difficulty = "challenge" /\ op = "start_game" /\ ret = "False"
    /\ Cardinality(banned_words) = 10
    /\ Cardinality({ w \in word_set : Len(w) = 6 }) > 10
    /\ path_history # << >>

(* C26: once a game was started, only a start_game call that succeeds       *)
(* changes the banned set; every other step, a rejected start_game          *)
(* included, leaves it as it is.                                            *)
C26_BannedSetFrozen ==
    [][(start_time = TRUE /\ ~(op' = "start_game" /\ ret' = "True" /\ calls' = calls + 1))
        => banned_words' = banned_words]_vars

(* the consequence: every word of the path history of a started game is a   *)
(* valid word                                                               *)
C26_HistoryStaysValid ==
    start_time = TRUE => \A i \in 1..Len(path_history) : IsValid(banned_words, path_history[i])

-----------------------------------------------------------------------------
(* The expected conditions *)

(* no path of valid words leads from a to b *)
NoPath(B, a, b) ==
    ~IsValid(B, a) \/ ~IsValid(B, b) \/ ShortestDistance(B, a, b) = Inf

(* C27: in every state, before a game was started too, the expected         *)
(* conditions are reported by a return value and never by a raised fault:   *)
(* a call of start_game, make_move or get_hint returns true, false, a word  *)
(* or none.                                                                 *)
C27_NoRaisedFault ==
    (op \in {"start_game", "make_move", "get_hint"})
    => ret \in {"True", "False", "None", "word"}

(* the part of C27 that holds: the tests of the calls themselves.           *)
(* make_move returns false for an invalid word, a word of another length    *)
(* and a word that is not one letter from the current word; get_hint        *)
(* returns none when the hint budget is exhausted and when no path leads to *)
(* the target; the searches return none for an invalid word.                *)
C27_TestsReturn ==
    /\ \A w \in MoveInputs :
          (\/ ~IsValid(banned_words, w)
           \/ Len(w) # Len(current_word)
           \/ ~OneLetterApart(lower(w), current_word))
          => make_move(Self, w).ret = "False"
    /\ \A alg \in Algorithms :
          (\/ hints_remaining <= 0
           \/ NoPath(banned_words, current_word, target_word))
          => get_hint(Self, alg).ret = "None"
    /\ \A alg \in Algorithms : \A w \in MoveInputs :
          ~IsValid(banned_words, w)
          => /\ search(alg, Self, w, target_word) = None
             /\ search(alg, Self, current_word, w) = None

-----------------------------------------------------------------------------
(* The read-only operations *)

OtherDone == other.alg \in Algorithms /\ other.result = "done"

(* C28: the searches (and get_neighbors, is_valid_word and heuristic, which *)
(* they call) leave every field of the game object unchanged, and two       *)
(* searches whose iterations are interleaved in any order each return what  *)
(* the same call returns when it runs alone.                                *)
C28_SearchesReadOnly ==
    /\ [][UNCHANGED <<word_set, banned_words, current_word, target_word, path_history,
                      hints_remaining, hints_used, score, start_time, difficulty,
                      time_limit, graph>>]_vars
    /\ [](SearchDone => s_path = search(s_alg, Self, s_start, s_target))
    /\ [](OtherDone => other.path = search(other.alg, Self, other.start, other.target))

(* two calls that took iterations in turn have both returned a path *)
C28_Witness ==
    /\ SearchDone /\ OtherDone /\ other.mixed
    /\ s_path # None /\ other.path # None
    /\ Len(expanded) >= 3
    /\ <<s_alg, s_start, s_target>> # <<other.alg, other.start, other.target>>

-----------------------------------------------------------------------------
(* The order of the pops *)

(* C29: of the entries of the frontier with the least priority, the one     *)
(* pushed first is popped first: no entry that was pushed before the popped *)
(* one has the same priority.                                               *)
C29_TiesInDiscoveryOrder ==
    [][Len(heap') < Len(heap)
        => \A i \in heap_min(heap) : \A j \in 1..(i - 1) : heap[j].pri # heap[i].pri]_vars

-----------------------------------------------------------------------------
(* The path history *)

StartAccepted == calls' = calls + 1 /\ op' = "start_game" /\ ret' = "True"

(* C30: once a game was started the path history is a well-formed ladder:   *)
(* it is not empty, it ends with the current word, its words have the       *)
(* length of the target and consecutive words differ in exactly one         *)
(* position; an accepted start_game makes it the start word alone, an       *)
(* accepted move makes it one longer, and no other step changes it, so it   *)
(* keeps its first word and never shrinks.                                  *)
C30_HistoryIsLadder ==
    /\ [](start_time = TRUE =>
            /\ path_history # << >>
            /\ path_history[Len(path_history)] = current_word
            /\ \A i \in 1..Len(path_history) : Len(path_history[i]) = Len(target_word)
            /\ \A i \in 1..(Len(path_history) - 1) :
                  OneLetterApart(path_history[i], path_history[i + 1]))
    /\ [][/\ StartAccepted => path_history' = << current_word' >>
          /\ MoveAccepted => Len(path_history') = Len(path_history) + 1
          /\ (start_time = TRUE /\ ~StartAccepted)
               => \/ path_history' = path_history
                  \/ /\ op' = "make_move"
                     /\ path_history' = Append(path_history, current_word')]_vars

(* a started game whose history holds the start word and two accepted moves *)
(* and that has not reached its target                                       *)
C30_Witness ==
    /\ start_time = TRUE /\ op = "make_move" /\ ret = "True"
    /\ Len(path_history) = 3
    /\ current_word # target_word

-----------------------------------------------------------------------------
(* The components of the score *)

(* calculate_score can run: a game was started and A* finds its reference path *)
Scorable == start_time = TRUE /\ ~calculate_score_raises(Self)

(* the moves made beyond the length of the reference path *)
ExtraMoves ==
    Max(0, (Len(path_history) - 1)
           - (Len(call("a_star", Self, path_history[1], target_word)) - 1))

(* the path bonus as stated: all of it, 80%, 60%, nothing *)
PathBonus(bonus, extra) ==
    CASE extra = 0 -> bonus
      [] extra = 1 -> (bonus * 80) \div 100
      [] extra = 2 -> (bonus * 60) \div 100
      [] OTHER     -> 0

(* C31: the score calculate_score computes holds the path bonus in full     *)
(* when extra_moves = 0, 80% and 60% of it (truncated) when extra_moves is  *)
(* 1 and 2, none of it when extra_moves >= 3, with extra_moves =            *)
(* max(0, user_length - optimal_length), and the move penalty               *)
(* extra_moves * move_factor.                                               *)
C31_PathBonusAndMovePenalty ==
    Scorable
    => calculate_score(Self).self.score
         = Max(0, base_score + PathBonus(optimal_path_bonus, ExtraMoves)
                  + TimeComponent(Self, base_score, time_factor, elapsed)
                  - ExtraMoves * move_factor
                  - HintPenalty(hint_factor, hints_used))

(* calculate_score returned a positive score for a path two moves longer    *)
(* than the reference path                                                   *)
C31_Witness ==
    /\ op = "calculate_score" /\ ret = "int" /\ score > 0
    /\ ExtraMoves = 2

(* the hint penalty as stated, in closed form *)
ClosedHintPenalty(factor, h) == (factor * h * (h + 1)) \div 2

(* C32: the hint penalty calculate_score subtracts for h hints used is      *)
(* hint_factor * h * (h + 1) / 2 with the hint_factor of the active         *)
(* difficulty: the score is the one computed with that penalty, and the     *)
(* k-th hint adds hint_factor * k to the penalty, more than the one before. *)
C32_HintPenaltyTriangular ==
    /\ Scorable
       => calculate_score(Self).self.score
            = Max(0, base_score + PathBonus(optimal_path_bonus, ExtraMoves)
                     + TimeComponent(Self, base_score, time_factor, elapsed)
                     - ExtraMoves * move_factor
                     - ClosedHintPenalty(DIFFICULTY_SETTINGS[difficulty].hint_factor,
                                         hints_used))
    /\ \A d \in Difficulties : \A k \in 1..(DIFFICULTY_SETTINGS[d].hint_limit + 1) :
          LET f == DIFFICULTY_SETTINGS[d].hint_factor
          IN  /\ HintPenalty(f, k) = ClosedHintPenalty(f, k)
              /\ HintPenalty(f, k) - HintPenalty(f, k - 1) = f * k
              /\ k > 1 => f * k > HintPenalty(f, k - 1) - HintPenalty(f, k - 2)

(* a score was computed after two hints were used, and the penalty shows in *)
(* it                                                                        *)
C32_Witness ==
    /\ op \in {"calculate_score", "make_move"} /\ ret \in {"int", "True"}
    /\ Scorable /\ hints_used = 2
    /\ score > 0 /\ score = calculate_score(Self).self.score
    /\ score < calculate_score(WithHintsUsed(0)).self.score

-----------------------------------------------------------------------------
(* The hint budget *)

(* C33: once a game was started, hints_used + hints_remaining is the        *)
(* hint_limit of the active difficulty and hints_used is at most that       *)
(* limit.                                                                   *)
C33_HintBudgetConserved ==
    start_time = TRUE
    => /\ hints_used + hints_remaining = DIFFICULTY_SETTINGS[difficulty].hint_limit
       /\ hints_used <= DIFFICULTY_SETTINGS[difficulty].hint_limit

-----------------------------------------------------------------------------
(* The suggestion and the game *)

(* C34: a pair that suggest_word_pair(d) returned is accepted by the        *)
(* start_game(s, t, d) that follows it, whatever banned set the session     *)
(* before had and whatever sample setup_difficulty draws.                   *)
C34_SuggestedPairAccepted ==
    PairReturned
    => \A B \in BannedSamples(Self, g_difficulty) :
          start_game(Self, g_pair[1], g_pair[2], g_difficulty, B).ret = "True"


(* C35: in every won session the length of the A* path from the first word  *)
(* of the history to the target, which calculate_score takes as the         *)
(* optimal length, is at most the number of moves the player made.          *)
C35_ReferenceNotLonger ==
    (Scorable /\ current_word = target_word)
    => Len(call("a_star", Self, path_history[1], target_word)) - 1
         <= Len(path_history) - 1


-----------------------------------------------------------------------------
(* Uniform hints *)

(* the session after n rounds of get_hint('uniform') and make_move of the   *)
(* word it returned, stopping when no word is returned                       *)
RECURSIVE HintWalk(_, _)
HintWalk(self, n) ==
    IF n = 0 THEN self
    ELSE LET h == get_hint(self, "uniform")
         IN  IF h.ret # "word" THEN h.self
             ELSE HintWalk(make_move(h.self, h.value).self, n - 1)

DistanceToTarget(w) == ShortestDistance(banned_words, w, target_word)

HintsLeft == IF hints_remaining < 0 THEN 0 ELSE hints_remaining

(* C36: a word that get_hint('uniform') returns is one step nearer to the   *)
(* target than the current word, in every state; from a valid current word  *)
(* with the target in reach, k uniform hints played in a row, k up to the   *)
(* hints that remain and the distance to the target, take k moves and bring *)
(* the player k steps nearer, to the target itself when the hints suffice.  *)
C36_UniformHintsDescend ==
    start_time = TRUE
    => /\ LET h == get_hint(Self, "uniform")
          IN  h.ret = "word"
              => DistanceToTarget(h.value) = DistanceToTarget(current_word) - 1
       /\ LET d == DistanceToTarget(current_word)
          IN  (d # Inf /\ IsValid(banned_words, current_word))
              => \A k \in 0..(IF d < HintsLeft THEN d ELSE HintsLeft) :
                    LET w == HintWalk(Self, k)
                    IN  /\ Len(w.path_history) = Len(path_history) + k
                        /\ DistanceToTarget(w.current_word) = d - k
                        /\ w.hints_used = hints_used + k
                        /\ (k = d => w.current_word = target_word)

(* the first hint of a game was the uniform one, where A* and greedy give   *)
(* another word; the target is three moves away and three hints in a row    *)
(* reach it                                                                 *)
C36_Witness ==
    /\ op = "get_hint" /\ ret = "word" /\ hints_used = 1
    /\ Len(path_history) = 1
    /\ hint = call("uniform", Self, current_word, target_word)[2]
    /\ hint # call("a_star", Self, current_word, target_word)[2]
    /\ DistanceToTarget(current_word) = 3
    /\ DistanceToTarget(hint) = 2
    /\ HintWalk(WithHintsUsed(0), 3).current_word = target_word


-----------------------------------------------------------------------------
(* The levels of the suggestion *)

(* the words of V at breadth-first distance k from the words of `layer`,    *)
(* `seen` being the words at a smaller distance                              *)
RECURSIVE Ring(_, _, _, _)
Ring(V, seen, layer, k) ==
    IF k = 0 THEN layer
    ELSE LET nxt == { w \in V \ seen : \E v \in layer : OneLetterApart(v, w) }
         IN  Ring(V, seen \cup nxt, nxt, k - 1)

(* the level after k expansions from start_word is the set of valid words   *)
(* at distance k, for every k the loop of line 172 can run to                *)
LevelsAgree(W, B, start_word) ==
    \A k \in 0..10 :
        bfs_levels([word_set |-> W, banned_words |-> B], Len(start_word),
                   {start_word}, {start_word}, k)
          = Ring(W \ B, {start_word}, {start_word}, k)

AgreeTable ==
    [B \in SuggestBanned |->
        [start_word \in SuggestCorpus |-> LevelsAgree(SuggestCorpus, B, start_word)]
        @@ << >>]
    @@ << >>

(* the start word of the last attempt *)
Attempted == g_try[1] # None

(* C37: in suggest_word_pair the level after k expansions holds exactly the *)
(* valid words at breadth-first distance k from the start word, so the      *)
(* shortest-path length of every returned pair is in [2,4] for beginner,    *)
(* [4,7] for advanced and [7,10] for challenge.                              *)
C37_LevelsAreDistances ==
    /\ Attempted
       => IF word_set = SuggestCorpus /\ banned_words \in SuggestBanned
          THEN AgreeTable[banned_words][g_try[1]]
          ELSE LevelsAgree(word_set, banned_words, g_try[1])
    /\ PairReturned
       => LET L == ShortestDistance(banned_words, g_pair[1], g_pair[2])
          IN  CASE g_difficulty = "beginner"  -> 2 <= L /\ L <= 4
                [] g_difficulty = "advanced"  -> 4 <= L /\ L <= 7
                [] g_difficulty = "challenge" -> 7 <= L /\ L <= 10


(* a challenge pair at distance 10 was returned, from a start word that has *)
(* a valid word at distance 11                                              *)
C37_Witness ==
    /\ PairReturned
    /\ g_difficulty = "challenge"
    /\ ShortestDistance(banned_words, g_pair[1], g_pair[2]) = 10
    /\ g_pair[2] \in bfs_levels(Self, g_word_length, {g_pair[1]}, {g_pair[1]}, 10)
    /\ Ring(word_set \ banned_words, {g_pair[1]}, {g_pair[1]}, 11) # {}


-----------------------------------------------------------------------------
(* Rejected moves *)

(* the step is a make_move call that returned false *)
MoveRejected == op' = "make_move" /\ calls' = calls + 1 /\ ret' = "False"

(* C38: a make_move that returns false leaves the session as it was:        *)
(* current word, target word, path history, hints_remaining, hints_used,    *)
(* score, difficulty and banned set, and every other field of the object.   *)
C38_RejectedMoveChangesNothing ==
    [][MoveRejected
       => /\ UNCHANGED <<current_word, target_word, path_history, hints_remaining,
                         hints_used, score, difficulty, banned_words>>
          /\ SelfNext = Self]_vars

(* a move was rejected in a session that has a move and a hint behind it *)
C38_Witness ==
    /\ op = "make_move" /\ ret = "False"
    /\ start_time = TRUE
    /\ Len(path_history) = 2
    /\ hints_used = 1
    /\ current_word # target_word


-----------------------------------------------------------------------------
(* The game object inside the GUI (src/word_ladder_gui.py).  The event      *)
(* thread runs the handlers of WordLadderGUI.run, one event at a time; a    *)
(* click on the suggest button starts a daemon thread that calls            *)
(* get_random_word or suggest_word_pair on the same game object.  The       *)
(* start_game call of the event thread takes two steps, setup_difficulty    *)
(* and the rest, and the call of the worker one step per loop iteration,    *)
(* the interpreter being free to switch threads between them.  The branch   *)
(* of run that calls check_suggestion_result (line 1547) is never taken:    *)
(* the worker clears is_loading before it ends.                             *)

(* the pairs of GuiPairs an attempt of the running call can return *)
Findable ==
    { p \in GuiPairs :
        /\ p[1] \in g_valid_words
        /\ \E target_distance \in TargetDistances(g_difficulty) :
              p[2] \in targets(Self, g_word_length, p[1], target_distance)
        /\ verified(Self, g_difficulty, p[1], p[2]) }

(* the same, tabulated for the objects loaded with SuggestCorpus *)
GuiSampleTable ==
    [d \in Difficulties |-> gui_samples([word_set |-> SuggestCorpus], d)] @@ << >>

GuiSamples(self, d) ==
    IF self.word_set = SuggestCorpus THEN GuiSampleTable[d] ELSE gui_samples(self, d)

(* get_random_word, game lines 75-92: the values random.choice can return   *)
get_random_word(self, length) ==
    IF valid_words(self, length) = {} THEN {None} ELSE valid_words(self, length)

(* the choices of line 90 observed: a word that is also typed, if any *)
GuiChoices(S) == IF S \cap GuiTyped # {} THEN S \cap GuiTyped ELSE S

(* gui lines 434-436 *)
random_word_length(d) ==
    IF d = "beginner" THEN 3 ELSE IF d = "advanced" THEN 5 ELSE 6

(* the fields of the game object become those of self *)
Becomes(self) ==
    /\ banned_words' = self.banned_words
    /\ current_word' = self.current_word
    /\ target_word' = self.target_word
    /\ path_history' = self.path_history
    /\ start_time' = self.start_time
    /\ elapsed' = self.elapsed
    /\ score' = self.score
    /\ difficulty' = self.difficulty
    /\ hints_remaining' = self.hints_remaining
    /\ time_limit' = self.time_limit
    /\ hints_used' = self.hints_used
    /\ base_score' = self.base_score
    /\ optimal_path_bonus' = self.optimal_path_bonus
    /\ time_factor' = self.time_factor
    /\ move_factor' = self.move_factor
    /\ hint_factor' = self.hint_factor
    /\ graph' = self.graph

GuiInit ==
    /\ word_set = SuggestCorpus
    /\ banned_words = {}
    /\ current_word = << >>
    /\ target_word = << >>
    /\ path_history = << >>
    /\ start_time = FALSE
    /\ elapsed = 0
    /\ score = 0
    /\ difficulty = "beginner"
    /\ hints_remaining = Inf
    /\ time_limit = Inf
    /\ hints_used = 0
    /\ base_score = 1000
    /\ optimal_path_bonus = None
    /\ time_factor = None
    /\ move_factor = None
    /\ hint_factor = None
    /\ graph = [nodes |-> {}, edges |-> {}]
    /\ op = "__init__"
    /\ ret = "None"
    /\ hint = None
    /\ calls = 0
    /\ s_alg = "idle"
    /\ s_start = << >>
    /\ s_target = << >>
    /\ frontier = {}
    /\ visited = << >>
    /\ visited_set = {}
    /\ s_result = "done"
    /\ s_path = None
    /\ expanded = << >>
    /\ no_loop
    /\ n_word = None
    /\ n_result = {}
    /\ no_suggestion
    /\ no_gui

GameUnchanged == UNCHANGED <<word_set, gameVars, searchVars, loopVars, neighborVars>>

(* handle_difficulty_select_input, gui lines 366-380 *)
ClickDifficulty ==
    /\ main = "idle"
    /\ gui.current_screen = "difficulty_select"
    /\ \E d \in Difficulties :
         gui' = [gui EXCEPT !.selected_difficulty = d, !.current_screen = "setup",
                            !.input_text = None, !.start_word = None,
                            !.target_word = None]
    /\ GameUnchanged
    /\ UNCHANGED <<suggestVars, worker, main>>

(* handle_setup_input, gui lines 565-570 and 618-624: a click into the      *)
(* input box and the key events that leave a word (or nothing) in it        *)
TypeWord ==
    /\ main = "idle"
    /\ gui.current_screen = "setup"
    /\ \E w \in GuiTyped \cup {None} : gui' = [gui EXCEPT !.input_text = w]
    /\ GameUnchanged
    /\ UNCHANGED <<suggestVars, worker, main>>

(* handle_setup_input, gui lines 592-617: the Return key *)
PressReturn ==
    /\ main = "idle"
    /\ gui.current_screen = "setup"
    /\ gui.input_text # None
    /\ LET word == lower(gui.input_text)
       IN  IF gui.start_word = None
           THEN IF is_valid_word(Self, word)
                THEN gui' = [gui EXCEPT !.start_word = word, !.input_text = None]
                ELSE UNCHANGED gui
           ELSE IF word = gui.start_word
                THEN gui' = [gui EXCEPT !.input_text = None]
                ELSE IF is_valid_word(Self, word)
                THEN IF call("a_star", Self, gui.start_word, word) # None
                     THEN gui' = [gui EXCEPT !.target_word = word]
                     ELSE gui' = [gui EXCEPT !.input_text = None]
                ELSE UNCHANGED gui
    /\ GameUnchanged
    /\ UNCHANGED <<suggestVars, worker, main>>

(* handle_setup_input, gui lines 572-578, and suggest_words_async, gui      *)
(* lines 458-460: the click on the suggest button starts the thread         *)
ClickSuggest ==
    /\ main = "idle"
    /\ gui.current_screen = "setup"
    /\ ~gui.is_loading
    /\ gui' = [gui EXCEPT !.is_loading = TRUE]
    /\ worker' = "started"
    /\ GameUnchanged
    /\ UNCHANGED <<suggestVars, main>>

(* handle_setup_input, gui lines 580-584: the click on the start button     *)
(* calls start_game, which begins with setup_difficulty (game line 206)     *)
ClickStart ==
    /\ main = "idle"
    /\ gui.current_screen = "setup"
    /\ gui.start_word # None /\ gui.target_word # None
    /\ main' = "start_game"
    /\ \E B \in GuiSamples(Self, gui.selected_difficulty) :
         Becomes(setup_difficulty(Self, gui.selected_difficulty, B))
    /\ UNCHANGED <<word_set, op, ret, hint, calls, searchVars, loopVars, neighborVars,
                   suggestVars, gui, worker>>

(* the rest of start_game (game lines 208-234) and of the handler (gui      *)
(* lines 584-589)                                                           *)
StartReturns ==
    /\ main = "start_game"
    /\ LET r == start_game(Self, gui.start_word, gui.target_word,
                           gui.selected_difficulty, banned_words)
       IN  /\ Becomes(r.self)
           /\ op' = "start_game" /\ ret' = r.ret /\ hint' = r.value
           /\ gui' = IF r.ret = "True"
                     THEN [gui EXCEPT !.current_screen = "game"]
                     ELSE [gui EXCEPT !.target_word = None]
    /\ main' = "idle"
    /\ UNCHANGED <<word_set, calls, searchVars, loopVars, neighborVars, suggestVars,
                   worker>>

(* worker, gui line 432: the thread begins and tests self.start_word *)
WorkerBegins ==
    /\ worker = "started"
    /\ IF gui.start_word = None
       THEN worker' = "get_random_word" /\ UNCHANGED suggestVars
       ELSE /\ worker' = "suggest_word_pair"
            /\ g_state' = "idle"
            /\ g_difficulty' = gui.selected_difficulty
            /\ g_word_length' = 0
            /\ g_valid_words' = {}
            /\ g_attempts' = 0
            /\ g_try' = <<None, None>>
            /\ g_pair' = <<None, None>>
    /\ GameUnchanged
    /\ UNCHANGED <<gui, main>>

(* worker, gui lines 433-443 and 455-456: get_random_word returns *)
WorkerRandomWord ==
    /\ worker = "get_random_word"
    /\ \E start_word \in
           GuiChoices(get_random_word(Self, random_word_length(gui.selected_difficulty))) :
         gui' = [gui EXCEPT !.input_text = IF start_word # None THEN start_word ELSE @,
                            !.is_loading = FALSE]
    /\ worker' = "none"
    /\ GameUnchanged
    /\ UNCHANGED <<suggestVars, main>>

(* worker, gui line 447: suggest_word_pair(self.selected_difficulty) runs,  *)
(* a step of SuggestNext at a time                                          *)
WorkerSuggests ==
    /\ worker = "suggest_word_pair"
    /\ SuggestNext
    /\ g_difficulty' = gui.selected_difficulty
    /\ g_attempts' # g_attempts
       => IF Findable # {} THEN g_try' \in Findable
          ELSE g_try'[1] \in { p[1] : p \in GuiPairs }

(* worker, gui lines 448-456: suggest_word_pair has returned *)
WorkerSuggested ==
    /\ worker = "suggest_word_pair"
    /\ g_state = "returned"
    /\ gui' = [gui EXCEPT
                 !.input_text = IF g_pair[2] # None /\ g_pair[2] # gui.start_word
                                THEN g_pair[2] ELSE @,
                 !.is_loading = FALSE]
    /\ worker' = "none"
    /\ GameUnchanged
    /\ UNCHANGED <<suggestVars, main>>

GuiNext ==
    \/ ClickDifficulty \/ TypeWord \/ PressReturn \/ ClickSuggest
    \/ ClickStart \/ StartReturns
    \/ WorkerBegins \/ WorkerRandomWord \/ WorkerSuggests \/ WorkerSuggested

GuiSpec == GuiInit /\ [][GuiNext]_vars

(* the worker is inside a call on the game object *)
WorkerInGame == worker \in {"get_random_word", "suggest_word_pair"}

(* C39: calls on the shared game object are serialized: while the worker    *)
(* is inside get_random_word or suggest_word_pair the event thread is not   *)
(* inside start_game (and its setup_difficulty).                             *)
C39_GameCallsSerialized == ~(WorkerInGame /\ main = "start_game")

=============================================================================
